---- MODULE Spec2Model ----
(***************************************************************************)
(* Reflection plugin (src/reflection.ts, second revision, lines 268-716): *)
(* the event handler, runReflection and the helpers it calls, together    *)
(* with the host they talk to (session transcripts, the judge agent, the  *)
(* user and the coding agent).                                            *)
(*                                                                         *)
(* A text is a sequence of tokens; String.includes(marker) is membership  *)
(* of the marker token.  A runReflection call in flight is a record of    *)
(* `passes`; its pc names the await it is suspended on.  The synchronous  *)
(* code between two awaits is one step (JavaScript runs it to completion).*)
(* getAgentsFile, saveReflectionData, showToast and the poll sleep touch  *)
(* no state of the plugin or of the host sessions; their awaits are       *)
(* folded into the step around them (showToast swallows its errors; what  *)
(* it published is recorded in `toasts`).                                 *)
(*                                                                         *)
(* Speech queue (src/tts.ts, lines 723-729 and 836-992, and speak() at    *)
(* lines 2059-2114): the ticket files, the lock file and the speak() call *)
(* of every process, against a clock that advances in coarse steps.       *)
(***************************************************************************)
EXTENDS Integers, Sequences, FiniteSets, TLC

\* ---------------------------------------------------------------- constants
MAX_ATTEMPTS == 3
JUDGE_RESPONSE_TIMEOUT == 180000
POLL_INTERVAL == 2000

\* src/tts.ts: the speech lock and the wait for a turn in the speech queue.
SPEECH_LOCK_TIMEOUT == 120000
SPEECH_TURN_TIMEOUT == 180000

REFLECTION_MARKER == "## Reflection:"
JUDGE_MARKER == "TASK VERIFICATION"

\* ------------------------------------------------------------------- bounds
\* Human (non-feedback) messages the user types into a session.
MaxHuman == 2
\* Judge sessions the host creates over a run.
MaxJudges == 4
\* The same two bounds for the runs with aborts, judge events or every verdict.
SmallHuman == 1
SmallJudges == 2
\* Host RPCs that fail (throw) over a run with faults.
MaxFailures == 1
\* Human messages and judge sessions of the runs over two full generations.
ResetHuman == 2
ResetJudges == 6
\* Judge sessions of the runs that follow the poll loop poll by poll.
WaitJudges == 1

\* Human messages of the runs in which every generation is followed to its end.
LiveHuman == 1

\* The clock stops at MaxClock (ms).
MaxClock == 180000
\* session.idle events delivered to the TTS plugin over a run.
MaxIdles == 3
\* Messages of a transcript handed to waitForResponse and extractTaskAndResult.
MaxSnapshot == 4

\* The user's sessions, and the ids the host gives to the sessions it creates.
Users == {"u1"}
JudgeIds == <<"j1", "j2", "j3", "j4", "j5", "j6", "j7", "j8", "j9">>
JudgeId(n) == JudgeIds[n]
\* A session the user may open besides.
MoreUsers == {"u2"}
JudgeSessions == {JudgeIds[n] : n \in 1..Len(JudgeIds)}
Sessions == Users \cup MoreUsers \cup JudgeSessions
\* Time one poll takes beyond the sleep (the messages RPC), in ms.
PollLatencies == {88000}
\* The same for the runs that follow the poll loop poll by poll.
ShortLatencies == {0, 44000}

\* The OpenCode processes that speak (their PROCESS_ID), in the order their
\* ticket files are listed.
Procs == {1, 2}
\* The time that passes between two looks at the clock, in ms.
Elapses == {60000}

VARIABLES
  attempts,               \* Map<attemptKey, number>
  lastReflectedMsgCount,  \* Map<sessionId, number>
  activeReflections,      \* Set<sessionId>
  abortedSessions,        \* Set<sessionId>
  judgeSessionIds,        \* Set<sessionId>
  passes,                 \* the runReflection calls in flight
  msgs,                   \* host: the transcript of every session
  live,                   \* host: the sessions that exist
  nextJudge,              \* host: index of the next session id it hands out
  limits,                 \* the run's bounds and inputs: [human, judges, faults,
                          \* toastFaults, latencies, replies]
  failures,               \* RPCs that have failed so far
  fbLabels,               \* history: attempt labels of the feedback prompts, per key
  judged,                 \* history: judge sessions created, per key
  completedGens,          \* history: keys on which a complete verdict was applied
  toasts,                 \* history: notifications published, per key and kind
  rejected,               \* history: the sites whose exception left the handler
  lockFile,               \* tts: the file at SPEECH_LOCK_PATH
  tickets,                \* tts: the ticket files in SPEECH_QUEUE_DIR
  speakers,               \* tts: the speak() call of every process
  now,                    \* tts: Date.now()
  spokenSessions,         \* tts: Set<sessionId>
  idleCalls,              \* tts: the event handler calls in flight
  idleCount,              \* tts: session.idle events delivered so far
  speakCalls,             \* history: speak() calls made, per session
  snapshot,               \* a transcript as a messages RPC returns it
  polled,                 \* what one poll of waitForResponse makes of it
  extraction,             \* what extractTaskAndResult makes of it
  aborted                 \* what wasSessionAborted returned for it

vars == <<attempts, lastReflectedMsgCount, activeReflections, abortedSessions,
          judgeSessionIds, passes, msgs, live, nextJudge, limits, failures,
          fbLabels, judged, completedGens, toasts, rejected,
          lockFile, tickets, speakers, now,
          spokenSessions, idleCalls, idleCount, speakCalls,
          snapshot, polled, extraction, aborted>>

plugin == <<attempts, lastReflectedMsgCount, activeReflections, abortedSessions,
            judgeSessionIds>>
host == <<msgs, live, nextJudge>>
history == <<fbLabels, judged, completedGens, toasts, rejected>>
speech == <<lockFile, tickets, speakers, now>>
reflection == <<plugin, passes, host, limits, failures, history>>
announcer == <<spokenSessions, idleCalls, idleCount, speakCalls>>
reading == <<snapshot, polled, extraction, aborted>>

\* -------------------------------------------------------------------- texts
Includes(text, marker) == \E i \in 1..Len(text) : text[i] = marker

\* info.error of a message: its name, data.message and message ("" as <<>>).
NoError == [name |-> "", data |-> <<>>, message |-> <<>>]
AbortError == [name |-> "MessageAbortedError", data |-> <<>>,
               message |-> <<"The operation was aborted.">>]

TextPart(t) == [type |-> "text", text |-> t, tool |-> ""]
ToolPart(name) == [type |-> "tool", text |-> <<>>, tool |-> name]

Message(role, parts, error, completed) ==
  [role |-> role, parts |-> parts, error |-> error, completed |-> completed]

UserMessage(t) == Message("user", <<TextPart(t)>>, NoError, TRUE)

HumanTexts == << <<"write a function that adds two numbers">>,
                 <<"now add tests">>,
                 <<"and document it">> >>
AgentText == <<"done, see add.py">>

\* toLowerCase() of an error message token, and "abort" as a substring of it.
LowerCase(tok) ==
  CASE tok = "The operation was aborted." -> "the operation was aborted."
    [] tok = "Request ABORTED" -> "request aborted"
    [] tok = "User cancelled" -> "user cancelled"
    [] OTHER -> tok
IncludesAbort(tok) == LowerCase(tok) \in {"the operation was aborted.", "request aborted", "abort"}

\* ---------------------------------------------------------- Map get || default
MapGet(m, k, d) == IF k \in DOMAIN m THEN m[k] ELSE d
MapSet(m, k, v) == [x \in DOMAIN m \cup {k} |-> IF x = k THEN v ELSE m[x]]
MapDelete(m, k) == [x \in DOMAIN m \ {k} |-> m[x]]

getAttemptKey_SessionOnly(sessionId, humanMsgCount) == <<sessionId, 0>>

getAttemptKey(sessionId, humanMsgCount) == <<sessionId, humanMsgCount>>

\* ------------------------------------------------------ session classifiers
HasJudgeMarker_Never(messages) == FALSE

HasJudgeMarker_UserOnly(messages) ==
  \E i \in 1..Len(messages) : \E k \in 1..Len(messages[i].parts) :
     /\ messages[i].role = "user"
     /\ messages[i].parts[k].type = "text"
     /\ Includes(messages[i].parts[k].text, JUDGE_MARKER)

\* isJudgeSession, content path: some text part carries the judge marker.
HasJudgeMarker(messages) ==
  \E i \in 1..Len(messages) : \E k \in 1..Len(messages[i].parts) :
     /\ messages[i].parts[k].type = "text"
     /\ Includes(messages[i].parts[k].text, JUDGE_MARKER)

isJudgeSession_IdsOnly(sessionId, messages) == sessionId \in judgeSessionIds

\* Lines 347-360.
isJudgeSession(sessionId, messages) ==
  sessionId \in judgeSessionIds \/ HasJudgeMarker(messages)

\* wasSessionAborted, content path: some assistant message carries an error
\* named MessageAbortedError or whose message contains "abort".
\* Line 379: error.data?.message || error.message || "".
errorMsg(error) == IF error.data # <<>> THEN error.data ELSE error.message

IsAbortError(error) ==
  /\ error # NoError
  /\ \/ error.name = "MessageAbortedError"
     \/ \E i \in 1..Len(errorMsg(error)) : IncludesAbort(errorMsg(error)[i])

HasAbortError_LastOnly(messages) ==
  /\ messages # <<>>
  /\ messages[Len(messages)].role = "assistant"
  /\ IsAbortError(messages[Len(messages)].error)

\* Lines 369-386: the loop over every message.
HasAbortError(messages) ==
  \E i \in 1..Len(messages) :
     messages[i].role = "assistant" /\ IsAbortError(messages[i].error)

wasSessionAborted(sessionId, messages) ==
  sessionId \in abortedSessions \/ HasAbortError(messages)

AbortedAfterCheck_Forgets(sessionId, messages) == abortedSessions

\* The ids wasSessionAborted leaves in abortedSessions.
AbortedAfterCheck(sessionId, messages) ==
  IF sessionId \notin abortedSessions /\ HasAbortError(messages)
  THEN abortedSessions \cup {sessionId}
  ELSE abortedSessions

\* -------------------------------------------------------- transcript helpers
IsHumanText_FeedbackToo(part) == part.type = "text" /\ part.text # <<>>

\* Lines 413-415 (and 394): a text part that is not empty and no feedback.
IsHumanText(part) ==
  part.type = "text" /\ part.text # <<>> /\ ~Includes(part.text, REFLECTION_MARKER)

countHumanMessages_AllUser(messages) ==
  Cardinality({i \in 1..Len(messages) : messages[i].role = "user"})

\* Lines 390-404.
countHumanMessages(messages) ==
  Cardinality({i \in 1..Len(messages) :
     /\ messages[i].role = "user"
     /\ \E k \in 1..Len(messages[i].parts) : IsHumanText(messages[i].parts[k])})

NullExtract == [ok |-> FALSE, task |-> <<>>, result |-> <<>>, tools |-> <<>>]

\* The first text part of a user message that is no feedback; <<>> if none.
RECURSIVE FirstHumanText(_)
FirstHumanText(parts) ==
  IF parts = <<>> THEN <<>>
  ELSE IF IsHumanText(Head(parts)) THEN Head(parts).text
  ELSE FirstHumanText(Tail(parts))

\* The last non-empty text part of a message; <<>> if none.
RECURSIVE LastText(_)
LastText(parts) ==
  IF parts = <<>> THEN <<>>
  ELSE LET rest == LastText(Tail(parts)) IN
       IF rest # <<>> THEN rest
       ELSE IF Head(parts).type = "text" THEN Head(parts).text ELSE <<>>

RECURSIVE ToolsOf(_)
ToolsOf(parts) ==
  IF parts = <<>> THEN <<>>
  ELSE (IF Head(parts).type = "tool" THEN <<Head(parts).tool>> ELSE <<>>)
       \o ToolsOf(Tail(parts))

LastN_Oldest(seq, n) == IF Len(seq) <= n THEN seq ELSE SubSeq(seq, 1, n)

\* Line 440: tools.slice(-10).
LastN(seq, n) ==
  IF Len(seq) <= n THEN seq ELSE SubSeq(seq, Len(seq) - n + 1, Len(seq))

NothingToReflect_Both(task, result) == task = <<>> /\ result = <<>>

\* Line 439: !task || !result.
NothingToReflect(task, result) == task = <<>> \/ result = <<>>

\* The loop of extractTaskAndResult over messages[i..].
RECURSIVE ExtractLoop(_, _, _, _, _)
ExtractLoop(messages, i, task, result, tools) ==
  IF i > Len(messages)
  THEN IF NothingToReflect(task, result) THEN NullExtract
       ELSE [ok |-> TRUE, task |-> task, result |-> result, tools |-> LastN(tools, 10)]
  ELSE LET msg == messages[i]
           t == IF msg.role = "user" /\ FirstHumanText(msg.parts) # <<>>
                THEN FirstHumanText(msg.parts) ELSE task
           r == IF msg.role = "assistant" /\ LastText(msg.parts) # <<>>
                THEN LastText(msg.parts) ELSE result
       IN ExtractLoop(messages, i + 1, t, r, tools \o ToolsOf(msg.parts))

extractTaskAndResult(messages) == ExtractLoop(messages, 1, <<>>, <<>>, <<>>)

\* The judge prompt: the marker, then task, tools and result.
JudgePrompt(extracted) ==
  <<JUDGE_MARKER>> \o extracted.task \o extracted.tools \o extracted.result

\* ------------------------------------------------------------------ verdicts
\* The fields of a JSON object a judge replies with, one token each.
CompleteFields == {"complete: true", "complete: false"}
SeverityFields == {"severity: NONE", "severity: LOW", "severity: MEDIUM",
                   "severity: HIGH", "severity: BLOCKER"}
FeedbackFields == {"feedback: no test evidence shown",
                   "feedback: function added and verified"}
MissingFields == {"missing: test run output"}
NextActionsFields == {"next_actions: run tests"}
JsonFields == CompleteFields \cup SeverityFields \cup FeedbackFields
                \cup MissingFields \cup NextActionsFields

\* The value of a field token.
FieldValue(tok) ==
  CASE tok = "severity: NONE" -> "NONE"
    [] tok = "severity: LOW" -> "LOW"
    [] tok = "severity: MEDIUM" -> "MEDIUM"
    [] tok = "severity: HIGH" -> "HIGH"
    [] tok = "severity: BLOCKER" -> "BLOCKER"
    [] tok = "feedback: no test evidence shown" -> "no test evidence shown"
    [] tok = "feedback: function added and verified" -> "function added and verified"
    [] tok = "missing: test run output" -> "test run output"
    [] tok = "next_actions: run tests" -> "run tests"
    [] OTHER -> ""

\* response.match(/\{[\s\S]*\}/): from the first "{" to the last "}"; <<>> is null.
jsonMatch(response) ==
  LET opens == {i \in 1..Len(response) : response[i] = "{"}
      closes == {i \in 1..Len(response) : response[i] = "}"}
  IN IF opens = {} \/ closes = {} THEN <<>>
     ELSE LET first == CHOOSE i \in opens : \A k \in opens : i <= k
              last == CHOOSE i \in closes : \A k \in closes : i >= k
          IN IF first < last THEN SubSeq(response, first, last) ELSE <<>>

JsonParses_Lenient(match) == TRUE

\* JSON.parse accepts an object of fields between the braces and throws on
\* anything else.
JsonParses(match) ==
  /\ Len(match) >= 2
  /\ \A i \in 2..(Len(match) - 1) : match[i] \in JsonFields

\* The values of the fields of `kinds` in the object, in order; <<>>: absent.
RECURSIVE FieldsOf(_, _)
FieldsOf(match, kinds) ==
  IF match = <<>> THEN <<>>
  ELSE (IF Head(match) \in kinds THEN <<FieldValue(Head(match))>> ELSE <<>>)
       \o FieldsOf(Tail(match), kinds)

LastOr(seq, default) == IF seq = <<>> THEN default ELSE seq[Len(seq)]

JsonParse(match) ==
  [complete |-> \E i \in 1..Len(match) : match[i] = "complete: true",
   severity |-> LastOr(FieldsOf(match, SeverityFields), ""),
   feedback |-> LastN(FieldsOf(match, FeedbackFields), 1),
   missing |-> LastN(FieldsOf(match, MissingFields), 1),
   next_actions |-> LastN(FieldsOf(match, NextActionsFields), 1)]

\* Lines 640-642.
Severity(verdict) == IF verdict.severity # "" THEN verdict.severity ELSE "MEDIUM"
isBlocker_Never(verdict) == FALSE
isBlocker(verdict) == Severity(verdict) = "BLOCKER"
isComplete(verdict) == verdict.complete /\ ~isBlocker(verdict)

FeedbackText_NoFeedback(attemptCount, verdict) ==
  <<REFLECTION_MARKER, "Task Incomplete", ToString(attemptCount + 1), "/",
    ToString(MAX_ATTEMPTS), Severity(verdict)>>
  \o <<"Please address the above and continue.">>

\* Lines 657-673: the feedback prompt.
FeedbackText(attemptCount, verdict) ==
  <<REFLECTION_MARKER, "Task Incomplete", ToString(attemptCount + 1), "/",
    ToString(MAX_ATTEMPTS), Severity(verdict)>>
  \o (IF verdict.feedback # <<>> THEN verdict.feedback
      ELSE <<"Please review and complete the task.">>)
  \o (IF verdict.missing # <<>> THEN <<"### Missing">> \o verdict.missing ELSE <<>>)
  \o (IF verdict.next_actions # <<>>
      THEN <<"### Next Actions">> \o verdict.next_actions ELSE <<>>)
  \o <<"Please address the above and continue.">>

\* waitForResponse, one poll: the text of the last assistant message if that
\* message is completed and has a text; <<>> means "keep polling".
RECURSIVE LastAssistant(_)
LastAssistant(messages) ==
  IF messages = <<>> THEN 0
  ELSE IF messages[Len(messages)].role = "assistant" THEN Len(messages)
  ELSE LastAssistant(SubSeq(messages, 1, Len(messages) - 1))

RECURSIVE FirstText(_)
FirstText(parts) ==
  IF parts = <<>> THEN <<>>
  ELSE IF Head(parts).type = "text" /\ Head(parts).text # <<>> THEN Head(parts).text
  ELSE FirstText(Tail(parts))

PollText_Eager(messages) ==
  LET a == LastAssistant(messages) IN
  IF a = 0 THEN <<>> ELSE FirstText(messages[a].parts)

PollText(messages) ==
  LET a == LastAssistant(messages) IN
  IF a = 0 THEN <<>>
  ELSE IF ~messages[a].completed THEN <<>>
  ELSE FirstText(messages[a].parts)


\* -------------------------------------------------------------------- passes
NoJudge == ""

NewPass(sessionId) ==
  [sid |-> sessionId, pc |-> "messages", humanMsgCount |-> 0, attemptCount |-> 0,
   judge |-> NoJudge, elapsed |-> 0, polls |-> 0, caught |-> 0, text |-> <<>>,
   notified |-> FALSE]

\* An RPC may fail while the run's budget of faults lasts.
RpcOutcomes == IF failures < limits.faults THEN {"ok", "throw"} ELSE {"ok"}
Failed(outcome) == failures' = failures + (IF outcome = "ok" THEN 0 ELSE 1)
\* tui.publish may fail too, in the runs that say so.
ToastOutcomes ==
  IF limits.toastFaults /\ failures < limits.faults THEN {"ok", "throw"} ELSE {"ok"}
\* The outcomes of an RPC and of the tui.publish that follows it.
FailedEither(outcome, toast) ==
  LET n == (IF outcome = "ok" THEN 0 ELSE 1) + (IF toast = "ok" THEN 0 ELSE 1) IN
  /\ failures + n <= limits.faults
  /\ failures' = failures + n

Handler_ParseOutside(site) == IF site = "parse" THEN "none" ELSE "runReflection"

\* The catch clause that takes an exception raised at a site of a pass;
\* "none": it leaves the event handler.  Lines 335, 454, 528 and 683: the
\* try blocks of lines 327, 447, 523 and 471 enclose the sites.
Handler(site) ==
  CASE site = "toast" -> "showToast"
    [] site = "poll" -> "waitForResponse"
    [] site = "delete" -> "cleanupJudgeSession"
    [] site \in {"messages", "create", "judgePrompt", "parse", "feedback"}
         -> "runReflection"

\* The sites an exception escapes from, given the outcome at the site.
Escaped(site, outcome) ==
  IF outcome = "throw" /\ Handler(site) = "none" THEN {site} ELSE {}

Goto(p, q) == passes' = (passes \ {p}) \cup {q}

\* showToast(message, variant) on behalf of a key: one more notification.
Published(key, variant, message) ==
  toasts' = MapSet(toasts, <<key, variant, message>>,
                   MapGet(toasts, <<key, variant, message>>, 0) + 1)

\* Lines 327-335: the publish call went through, or threw and was swallowed.
PublishedIf(toast, key, variant, message) ==
  IF toast = "throw" THEN UNCHANGED toasts ELSE Published(key, variant, message)

EndPass_KeepsGuard(p) ==
  /\ UNCHANGED activeReflections
  /\ passes' = passes \ {p}

\* Line 686: the outer finally, and the call returns.
EndPass(p) ==
  /\ activeReflections' = activeReflections \ {p.sid}
  /\ passes' = passes \ {p}

\* What a judge agent replies with: a complete and an incomplete verdict, a
\* reply without an object, a reply whose object is no JSON.
CompleteReply ==
  <<"{", "complete: true", "severity: NONE", "feedback: function added and verified", "}">>
IncompleteReply ==
  <<"{", "complete: false", "severity: MEDIUM", "feedback: no test evidence shown",
    "missing: test run output", "next_actions: run tests", "}">>
JudgeReplies ==
  {CompleteReply, IncompleteReply, <<"I cannot judge this">>, <<"{", "complete: maybe", "}">>}

\* Every object of a complete flag and a severity, either of them absent or not.
VerdictReplies ==
  {<<"{">> \o c \o v \o <<"}">> :
     c \in {<<>>} \cup {<<x>> : x \in CompleteFields},
     v \in {<<>>} \cup {<<x>> : x \in SeverityFields}}

\* tts: no lock file, no ticket, nobody speaks.
NoContent == [written |-> FALSE, processId |-> 0, ticketId |-> [processId |-> 0, timestamp |-> 0],
              timestamp |-> 0]
NoFile == [exists |-> FALSE, creator |-> 0, content |-> NoContent]
NoTicket == [processId |-> 0, timestamp |-> 0]
NoSpeaker == [pc |-> "idle", ticket |-> NoTicket, startTime |-> 0, lockTimestamp |-> 0]
SpeechQuiet ==
  /\ lockFile = NoFile
  /\ tickets = {}
  /\ speakers = [q \in Procs |-> NoSpeaker]
  /\ now = 0

\* No transcript has been read yet.
NothingRead ==
  /\ snapshot = <<>>
  /\ polled = <<>>
  /\ extraction = NullExtract
  /\ aborted = FALSE

AnnouncerQuiet ==
  /\ spokenSessions = {}
  /\ idleCalls = {}
  /\ idleCount = 0
  /\ speakCalls = <<>>

InitWith(bounds) ==
  /\ SpeechQuiet
  /\ AnnouncerQuiet
  /\ NothingRead
  /\ attempts = <<>>
  /\ lastReflectedMsgCount = <<>>
  /\ activeReflections = {}
  /\ abortedSessions = {}
  /\ judgeSessionIds = {}
  /\ passes = {}
  /\ msgs = [s \in Sessions |-> <<>>]
  /\ live = Users
  /\ nextJudge = 1
  /\ limits = bounds
  /\ failures = 0
  /\ fbLabels = <<>>
  /\ judged = <<>>
  /\ completedGens = {}
  /\ toasts = <<>>
  /\ rejected = {}

Init == InitWith([human |-> MaxHuman, judges |-> MaxJudges, faults |-> 0, toastFaults |-> FALSE, latencies |-> PollLatencies,
                  replies |-> JudgeReplies])

\* ------------------------------------------------------------- event handler
\* Lines 693-700: session.error.
SessionError(s, name) ==
  /\ abortedSessions' =
       IF name = "MessageAbortedError" THEN abortedSessions \cup {s} ELSE abortedSessions
  /\ UNCHANGED <<attempts, lastReflectedMsgCount, activeReflections, judgeSessionIds,
                 passes, host, limits, speech, announcer, reading, failures, history>>

FastPath_JudgeOnly(s) == s \in judgeSessionIds

\* Lines 706-707: the fast path of the event handler.
FastPath(s) == s \in abortedSessions \/ s \in judgeSessionIds

InFlight_Never(s) == FALSE

InFlight_Any(s) == activeReflections # {}

\* Lines 466-468: the pass guard of runReflection.
InFlight(s) == s \in activeReflections

\* Lines 702-709 and 464-473: session.idle; a pass that starts asks for the
\* transcript.
SessionIdle(s) ==
  IF FastPath(s) \/ InFlight(s)
  THEN UNCHANGED vars
  ELSE /\ activeReflections' = activeReflections \cup {s}
       /\ passes' = passes \cup {NewPass(s)}
       /\ UNCHANGED <<attempts, lastReflectedMsgCount, abortedSessions, judgeSessionIds,
                      host, limits, speech, announcer, reading, failures, history>>

\* ------------------------------------------------------------- runReflection
AlreadyReflected_Strict(humanMsgCount, lastReflected) == humanMsgCount < lastReflected

\* The generation settled check of lines 491-495.
AlreadyReflected(humanMsgCount, lastReflected) == humanMsgCount <= lastReflected

CapReached_OffByOne(attemptCount) == attemptCount > MAX_ATTEMPTS

\* The cap check of line 501.
CapReached(attemptCount) == attemptCount >= MAX_ATTEMPTS

OnCap_Unmarked(sessionId, humanMsgCount) == lastReflectedMsgCount

\* Line 503: what the cap branch leaves in lastReflectedMsgCount.
OnCap(sessionId, humanMsgCount) ==
  MapSet(lastReflectedMsgCount, sessionId, humanMsgCount)

\* Lines 473-516: the transcript arrives (or the RPC throws: outer catch);
\* every check up to the create call.  The cap warning of line 504 is awaited
\* and the pass returns.
MessagesReturn(p) ==
  /\ p.pc = "messages"
  /\ \E outcome \in RpcOutcomes, toast \in ToastOutcomes :
     LET messages == IF p.sid \in live THEN msgs[p.sid] ELSE <<>>
         humanMsgCount == countHumanMessages(messages)
         lastReflected == MapGet(lastReflectedMsgCount, p.sid, 0)
         attemptKey == getAttemptKey(p.sid, humanMsgCount)
         attemptCount == MapGet(attempts, attemptKey, 0)
         extracted == extractTaskAndResult(messages)
         capped == /\ outcome = "ok" /\ Len(messages) >= 2
                   /\ ~wasSessionAborted(p.sid, messages)
                   /\ ~isJudgeSession(p.sid, messages)
                   /\ humanMsgCount # 0
                   /\ ~AlreadyReflected(humanMsgCount, lastReflected)
                   /\ CapReached(attemptCount)
     IN
     /\ FailedEither(outcome, toast)
     /\ toast = "throw" => capped
     /\ rejected' = rejected \cup Escaped("messages", outcome) \cup Escaped("toast", toast)
     /\ IF outcome = "throw" \/ Len(messages) < 2
        THEN /\ EndPass(p)
             /\ UNCHANGED <<attempts, lastReflectedMsgCount, abortedSessions, toasts>>
        ELSE IF wasSessionAborted(p.sid, messages)
        THEN /\ abortedSessions' = AbortedAfterCheck(p.sid, messages)
             /\ EndPass(p)
             /\ UNCHANGED <<attempts, lastReflectedMsgCount, toasts>>
        ELSE IF isJudgeSession(p.sid, messages)
                \/ humanMsgCount = 0
                \/ AlreadyReflected(humanMsgCount, lastReflected)
        THEN /\ EndPass(p)
             /\ UNCHANGED <<attempts, lastReflectedMsgCount, abortedSessions, toasts>>
        ELSE IF CapReached(attemptCount)
        THEN /\ lastReflectedMsgCount' = OnCap(p.sid, humanMsgCount)
             /\ PublishedIf(toast, attemptKey, "warning", "Max attempts reached")
             /\ EndPass(p)
             /\ UNCHANGED <<attempts, abortedSessions>>
        ELSE IF ~extracted.ok
        THEN /\ EndPass(p)
             /\ UNCHANGED <<attempts, lastReflectedMsgCount, abortedSessions, toasts>>
        ELSE /\ Goto(p, [p EXCEPT !.pc = "create", !.humanMsgCount = humanMsgCount,
                                   !.attemptCount = attemptCount,
                                   !.text = JudgePrompt(extracted)])
             /\ UNCHANGED <<attempts, lastReflectedMsgCount, activeReflections,
                            abortedSessions, toasts>>
  /\ UNCHANGED <<judgeSessionIds, host, limits, speech, announcer, reading, fbLabels, judged, completedGens>>

\* The host serves session.create: the judge session exists from here on.
HostCreate(p) ==
  /\ p.pc = "create"
  /\ p.judge = NoJudge
  /\ nextJudge <= limits.judges
  /\ LET key == getAttemptKey(p.sid, p.humanMsgCount) IN
     /\ live' = live \cup {JudgeId(nextJudge)}
     /\ nextJudge' = nextJudge + 1
     /\ Goto(p, [p EXCEPT !.judge = JudgeId(nextJudge)])
     /\ judged' = MapSet(judged, key, MapGet(judged, key, 0) + 1)
  /\ UNCHANGED <<plugin, msgs, limits, speech, announcer, reading, failures, fbLabels, completedGens, toasts,
                 rejected>>

Recorded_AfterPrompt(judge) == judgeSessionIds

\* Line 519, in the same synchronous stretch as the return of line 513.
Recorded(judge) == judgeSessionIds \cup {judge}

\* Lines 513-608: the id arrives and is recorded, the judge prompt is sent; or
\* the call throws or answers without an id (line 516).
CreateReturn(p) ==
  /\ p.pc = "create"
  /\ \E outcome \in RpcOutcomes :
       /\ Failed(outcome)
       /\ IF outcome = "throw"
          THEN /\ p.judge = NoJudge
               /\ EndPass(p)
               /\ UNCHANGED judgeSessionIds
          ELSE /\ p.judge # NoJudge
               /\ judgeSessionIds' = Recorded(p.judge)
               /\ Goto(p, [p EXCEPT !.pc = "judgePrompt"])
               /\ UNCHANGED activeReflections
       /\ rejected' = rejected \cup Escaped("create", outcome)
  /\ UNCHANGED <<attempts, lastReflectedMsgCount, abortedSessions, host, limits, speech, announcer, reading,
                 fbLabels, judged, completedGens, toasts>>

\* Line 608 returns and waitForResponse starts; or it throws: inner finally
\* (cleanup), then the outer catch.
JudgePromptReturn(p) ==
  /\ p.pc = "judgePrompt"
  /\ \E outcome \in RpcOutcomes :
       /\ Failed(outcome)
       /\ IF outcome = "throw"
          THEN /\ Goto(p, [p EXCEPT !.pc = "delete", !.text = <<>>])
               /\ UNCHANGED msgs
          ELSE /\ msgs' = [msgs EXCEPT ![p.judge] = Append(@, UserMessage(p.text))]
               /\ Goto(p, [p EXCEPT !.pc = "poll", !.elapsed = 0, !.text = <<>>])
       /\ rejected' = rejected \cup Escaped("judgePrompt", outcome)
  /\ UNCHANGED <<plugin, live, nextJudge, limits, speech, announcer, reading, fbLabels, judged, completedGens,
                 toasts>>

Expired_Never(elapsed) == FALSE

\* Line 445: the loop condition of waitForResponse, negated.
Expired(elapsed) == elapsed >= JUDGE_RESPONSE_TIMEOUT

OnTimeout_Retry(sessionId, humanMsgCount) == lastReflectedMsgCount

\* Lines 615-619: what a timeout leaves in lastReflectedMsgCount.
OnTimeout(sessionId, humanMsgCount) ==
  MapSet(lastReflectedMsgCount, sessionId, humanMsgCount)

\* Lines 621-625: what a reply without a brace-delimited part leaves there.
OnNoJson(sessionId, humanMsgCount) ==
  MapSet(lastReflectedMsgCount, sessionId, humanMsgCount)

OnComplete_Latest(sessionId, humanMsgCount) ==
  MapSet(lastReflectedMsgCount, sessionId, countHumanMessages(msgs[sessionId]))

\* Line 646: what a complete verdict leaves there: the count of line 487.
OnComplete(sessionId, humanMsgCount) ==
  MapSet(lastReflectedMsgCount, sessionId, humanMsgCount)

KeepsPolling_UnlessThrown(outcome, text, elapsed) ==
  outcome = "ok" /\ text = <<>> /\ ~Expired(elapsed)

\* Lines 445-454: the loop goes round again: this poll gave no text (its RPC
\* threw, line 454, or no completed reply) and the budget is not used up.
KeepsPolling(outcome, text, elapsed) == text = <<>> /\ ~Expired(elapsed)

Incremented_Twice(attemptCount) == attemptCount + 2

Incremented_Not(attemptCount) == attemptCount

\* Line 652: the attempt count an incomplete verdict stores.
Incremented(attemptCount) == attemptCount + 1

\* Lines 445-456 and 613-664: one poll.  It read `text` (<<>>: no completed
\* reply, or the RPC threw, line 454) when `elapsed` ms have passed since start.
\* A verdict is applied; for an incomplete one the toast of line 654 is awaited
\* and the feedback prompt is sent.
PollReturn(p) ==
  /\ p.pc = "poll"
  /\ \E outcome \in RpcOutcomes, toast \in ToastOutcomes, latency \in limits.latencies :
     LET messages == IF p.judge \in live THEN msgs[p.judge] ELSE <<>>
         text == IF outcome = "throw" THEN <<>> ELSE PollText(messages)
         elapsed == p.elapsed + POLL_INTERVAL + latency
         key == getAttemptKey(p.sid, p.humanMsgCount)
         match == jsonMatch(text)
         verdict == JsonParse(match)
         hasMatch == text # <<>> /\ match # <<>>
         parsed == IF hasMatch /\ ~JsonParses(match) THEN "throw" ELSE "ok"
         caught == p.caught + (IF outcome = "throw" THEN 1 ELSE 0)
     IN
     /\ FailedEither(outcome, toast)
     /\ toast = "throw" => (hasMatch /\ JsonParses(match))
     /\ rejected' = rejected \cup Escaped("poll", outcome) \cup Escaped("parse", parsed)
                       \cup Escaped("toast", toast)
     /\ IF KeepsPolling(outcome, text, elapsed)
        THEN /\ Goto(p, [p EXCEPT !.elapsed = elapsed, !.polls = p.polls + 1,
                                   !.caught = caught])
             /\ UNCHANGED <<attempts, lastReflectedMsgCount, completedGens, fbLabels, toasts>>
        ELSE IF text = <<>>
        THEN /\ lastReflectedMsgCount' = OnTimeout(p.sid, p.humanMsgCount)
             /\ Goto(p, [p EXCEPT !.pc = "delete", !.elapsed = 0, !.polls = 0,
                                   !.caught = caught])
             /\ UNCHANGED <<attempts, completedGens, fbLabels, toasts>>
        ELSE IF match = <<>>
        THEN /\ lastReflectedMsgCount' = OnNoJson(p.sid, p.humanMsgCount)
             /\ Goto(p, [p EXCEPT !.pc = "delete", !.elapsed = 0, !.polls = 0])
             /\ UNCHANGED <<attempts, completedGens, fbLabels, toasts>>
        ELSE IF ~JsonParses(match)
        THEN /\ Goto(p, [p EXCEPT !.pc = "delete", !.elapsed = 0, !.polls = 0])
             /\ UNCHANGED <<attempts, lastReflectedMsgCount, completedGens, fbLabels, toasts>>
        ELSE IF isComplete(verdict)
        THEN /\ lastReflectedMsgCount' = OnComplete(p.sid, p.humanMsgCount)
             /\ attempts' = MapDelete(attempts, key)
             /\ completedGens' = completedGens \cup {key}
             /\ PublishedIf(toast, key, "success",
                            IF Severity(verdict) = "NONE" THEN "Task complete"
                            ELSE "Task complete (severity)")
             /\ Goto(p, [p EXCEPT !.pc = "delete", !.elapsed = 0, !.polls = 0,
                                   !.notified = (toast = "ok")])
             /\ UNCHANGED fbLabels
        ELSE /\ attempts' = MapSet(attempts, key, Incremented(p.attemptCount))
             /\ PublishedIf(toast, key, IF isBlocker(verdict) THEN "error" ELSE "warning",
                            "Incomplete")
             /\ Goto(p, [p EXCEPT !.pc = "feedback", !.elapsed = 0, !.polls = 0,
                                   !.notified = (toast = "ok"),
                                   !.text = FeedbackText(p.attemptCount, verdict)])
             /\ fbLabels' = MapSet(fbLabels, key,
                              Append(MapGet(fbLabels, key, <<>>), p.attemptCount + 1))
             /\ UNCHANGED <<lastReflectedMsgCount, completedGens>>
  /\ UNCHANGED <<activeReflections, abortedSessions, judgeSessionIds, host, limits, speech, announcer, reading, judged>>

\* Line 664 returns: the host has appended the prompt to the session; or it
\* throws.  Either way the inner finally runs next.
FeedbackReturn(p) ==
  /\ p.pc = "feedback"
  /\ \E outcome \in RpcOutcomes :
       /\ Failed(outcome)
       /\ msgs' = IF outcome = "throw" THEN msgs
                  ELSE [msgs EXCEPT ![p.sid] = Append(@, UserMessage(p.text))]
       /\ rejected' = rejected \cup Escaped("feedback", outcome)
  /\ Goto(p, [p EXCEPT !.pc = "delete", !.text = <<>>])
  /\ UNCHANGED <<plugin, live, nextJudge, limits, speech, announcer, reading, fbLabels, judged, completedGens,
                 toasts>>

AfterCleanup_Keeps(judge, outcome) == judgeSessionIds

AfterCleanup_InTry(judge, outcome) ==
  IF outcome = "throw" THEN judgeSessionIds ELSE judgeSessionIds \ {judge}

\* Lines 531-533: the finally of cleanupJudgeSession, whatever the delete did.
AfterCleanup(judge, outcome) == judgeSessionIds \ {judge}

\* Lines 522-534 and 686: the delete returns, or throws (logged at line 530);
\* both finally blocks run.
DeleteReturn(p) ==
  /\ p.pc = "delete"
  /\ \E outcome \in RpcOutcomes :
       /\ Failed(outcome)
       /\ live' = IF outcome = "throw" THEN live ELSE live \ {p.judge}
       /\ msgs' = IF outcome = "throw" THEN msgs ELSE [msgs EXCEPT ![p.judge] = <<>>]
       /\ rejected' = rejected \cup Escaped("delete", outcome)
       /\ judgeSessionIds' = AfterCleanup(p.judge, outcome)
  /\ EndPass(p)
  /\ UNCHANGED <<attempts, lastReflectedMsgCount, abortedSessions, nextJudge, limits, speech, announcer, reading,
                 fbLabels, judged, completedGens, toasts>>

\* ---------------------------------------------------------------------- host
\* The user types a new message.
HumanMessage(s) ==
  /\ countHumanMessages(msgs[s]) < limits.human
  /\ msgs' = [msgs EXCEPT ![s] =
                Append(@, UserMessage(HumanTexts[countHumanMessages(msgs[s]) + 1]))]
  /\ UNCHANGED <<plugin, passes, live, nextJudge, limits, speech, announcer, reading, failures, history>>

AwaitsAgent(s) == msgs[s] # <<>> /\ msgs[s][Len(msgs[s])].role = "user"

\* The coding agent answers the last user message (human or feedback).
AgentReply(s) ==
  /\ AwaitsAgent(s)
  /\ msgs' = [msgs EXCEPT ![s] =
                Append(@, Message("assistant", <<TextPart(AgentText)>>, NoError, TRUE))]
  /\ UNCHANGED <<plugin, passes, live, nextJudge, limits, speech, announcer, reading, failures, history>>

\* The user cancels the agent's turn (Esc): the turn ends with an abort error.
AgentAborted(s) ==
  /\ AwaitsAgent(s)
  /\ ~HasAbortError(msgs[s])
  /\ msgs' = [msgs EXCEPT ![s] =
                Append(@, Message("assistant", <<TextPart(<<"I'll start...">>)>>,
                                  AbortError, TRUE))]
  /\ UNCHANGED <<plugin, passes, live, nextJudge, limits, speech, announcer, reading, failures, history>>

\* The judge agent starts its reply: an assistant message not yet completed.
JudgeBegin(j) ==
  /\ j \in live
  /\ Len(msgs[j]) = 1
  /\ msgs' = [msgs EXCEPT ![j] =
                Append(@, Message("assistant", <<TextPart(<<"{">>)>>, NoError, FALSE))]
  /\ UNCHANGED <<plugin, passes, live, nextJudge, limits, speech, announcer, reading, failures, history>>

\* The judge agent completes its reply.
JudgeFinish(j, reply) ==
  /\ j \in live
  /\ Len(msgs[j]) = 2
  /\ ~msgs[j][2].completed
  /\ msgs' = [msgs EXCEPT ![j][2] = Message("assistant", <<TextPart(reply)>>, NoError, TRUE)]
  /\ UNCHANGED <<plugin, passes, live, nextJudge, limits, speech, announcer, reading, failures, history>>

\* The judge agent's turn starts over: the reply it had begun is gone from the
\* transcript the next poll reads.
JudgeRetract(j) ==
  /\ j \in live
  /\ Len(msgs[j]) = 2
  /\ ~msgs[j][2].completed
  /\ msgs' = [msgs EXCEPT ![j] = SubSeq(@, 1, 1)]
  /\ UNCHANGED <<plugin, passes, live, nextJudge, limits, speech, announcer, reading, failures, history>>

\* The session the host created last: before, while and after it is a known judge.
LastCreated == {JudgeId(n) : n \in {nextJudge - 1} \ {0}}

\* The steps of the passes in flight.
PassStep ==
  \/ \E p \in passes : MessagesReturn(p)
  \/ \E p \in passes : HostCreate(p)
  \/ \E p \in passes : CreateReturn(p)
  \/ \E p \in passes : JudgePromptReturn(p)
  \/ \E p \in passes : PollReturn(p)
  \/ \E p \in passes : FeedbackReturn(p)
  \/ \E p \in passes : DeleteReturn(p)

\* The user, the coding agent and the judge agent at work.
HostStep ==
  \/ \E s \in Users : SessionIdle(s)
  \/ \E s \in Users : HumanMessage(s)
  \/ \E s \in Users : AgentReply(s)
  \/ \E j \in JudgeSessions : JudgeBegin(j)
  \/ \E j \in JudgeSessions : \E reply \in limits.replies : JudgeFinish(j, reply)

Next == PassStep \/ HostStep

Spec == Init /\ [][Next]_vars

\* Runs in which the judge replies with any object of a complete flag and a
\* severity.
InitVerdict == InitWith([human |-> SmallHuman, judges |-> SmallJudges, faults |-> 0, toastFaults |-> FALSE, latencies |-> PollLatencies,
                         replies |-> VerdictReplies])

SpecVerdict == InitVerdict /\ [][Next]_vars

\* Runs long enough for two full generations: the judge replies with a
\* verdict every time.
InitReset == InitWith([human |-> ResetHuman, judges |-> ResetJudges, faults |-> 0, toastFaults |-> FALSE, latencies |-> PollLatencies,
                       replies |-> {CompleteReply, IncompleteReply}])

SpecReset == InitReset /\ [][Next]_vars

\* Runs in which a messages RPC takes next to no time: the poll loop of
\* waitForResponse goes through all its rounds.
InitWait == InitWith([human |-> SmallHuman, judges |-> WaitJudges,
                      faults |-> MaxFailures, toastFaults |-> FALSE,
                      latencies |-> ShortLatencies, replies |-> JudgeReplies])

JudgeRetractStep == \E j \in JudgeSessions : JudgeRetract(j)

NextWait == Next \/ JudgeRetractStep

SpecWait == InitWait /\ [][NextWait]_vars

\* Runs in which host RPCs fail, tui.publish included.
InitFaults == InitWith([human |-> SmallHuman, judges |-> SmallJudges,
                        faults |-> MaxFailures, toastFaults |-> TRUE, latencies |-> PollLatencies,
                        replies |-> JudgeReplies])

SpecFaults == InitFaults /\ [][Next]_vars

\* Runs in which the user cancels: session.error events and aborted turns.
AbortStep ==
  \/ \E s \in Users : SessionError(s, "MessageAbortedError")
  \/ \E s \in Users : SessionError(s, "ProviderAuthError")
  \/ \E s \in Users : AgentAborted(s)

InitAbort == InitWith([human |-> MaxHuman, judges |-> SmallJudges, faults |-> 0, toastFaults |-> FALSE, latencies |-> PollLatencies,
                       replies |-> JudgeReplies])

NextAbort == Next \/ AbortStep

SpecAbort == InitAbort /\ [][NextAbort]_vars

\* Runs in which the host reports the judge session idle, and RPCs may fail.
JudgeIdleStep == \E j \in LastCreated : SessionIdle(j)

InitJudge == InitWith([human |-> SmallHuman, judges |-> SmallJudges,
                       faults |-> MaxFailures, toastFaults |-> FALSE, latencies |-> PollLatencies,
                       replies |-> JudgeReplies])

NextJudge == Next \/ JudgeIdleStep

SpecJudge == InitJudge /\ [][NextJudge]_vars

\* Runs in which the host, the coding agent and the judge agent keep going:
\* every RPC returns, the judge replies with a verdict before waitForResponse
\* gives up, the agent answers every prompt and an idle session is reported
\* idle.  Enough judge sessions for MAX_ATTEMPTS rounds on every generation.
InitLive == InitWith([human |-> LiveHuman, judges |-> MAX_ATTEMPTS * LiveHuman,
                      faults |-> 0, toastFaults |-> FALSE, latencies |-> PollLatencies,
                      replies |-> {CompleteReply, IncompleteReply}])

\* Lines 445-456: no poll loop ends without a reply.
JudgeInTime ==
  \A p \in passes :
     (p.pc = "poll" /\ p \notin passes' /\ p.judge \in live /\ PollText(msgs[p.judge]) = <<>>)
       => \E q \in passes' : q.sid = p.sid /\ q.pc = "poll"

NextLive == (PassStep /\ JudgeInTime) \/ HostStep

\* Every RPC returns, so no pass stays on an await for ever; the poll loop of
\* waitForResponse ends, the judge having replied.
Fairness ==
  /\ WF_vars(\E p \in passes : MessagesReturn(p))
  /\ WF_vars(\E p \in passes : HostCreate(p))
  /\ WF_vars(\E p \in passes : CreateReturn(p))
  /\ WF_vars(\E p \in passes : JudgePromptReturn(p))
  /\ []<>(\A p \in passes : p.pc # "poll")
  /\ WF_vars(\E p \in passes : FeedbackReturn(p))
  /\ WF_vars(\E p \in passes : DeleteReturn(p))
  /\ WF_vars(\E s \in Users : SessionIdle(s))
  /\ WF_vars(\E s \in Users : AgentReply(s))
  /\ WF_vars(\E j \in JudgeSessions : JudgeBegin(j))
  /\ WF_vars(\E j \in JudgeSessions : \E reply \in limits.replies : JudgeFinish(j, reply))

SpecLive == InitLive /\ [][NextLive]_vars /\ Fairness

\* The user types a message that has the words of the judge prompt's heading
\* in it.
HumanQuotes(s) ==
  /\ countHumanMessages(msgs[s]) < limits.human
  /\ msgs' = [msgs EXCEPT ![s] =
                Append(@, UserMessage(<<"why does it say", JUDGE_MARKER, "in my session list?">>))]
  /\ UNCHANGED <<plugin, passes, live, nextJudge, limits, speech, announcer, reading, failures, history>>

\* The coding agent answers with those words in its text.
AgentQuotes(s) ==
  /\ AwaitsAgent(s)
  /\ msgs' = [msgs EXCEPT ![s] =
                Append(@, Message("assistant",
                                  <<TextPart(<<"done">>), ToolPart("grep"),
                                    TextPart(<<"the heading", JUDGE_MARKER, "is in reflection.ts">>)>>,
                                  NoError, TRUE))]
  /\ UNCHANGED <<plugin, passes, live, nextJudge, limits, speech, announcer, reading, failures, history>>

\* Runs in which the user's own transcript comes to hold the judge marker.
QuoteStep ==
  \/ \E s \in Users : HumanQuotes(s)
  \/ \E s \in Users : AgentQuotes(s)

InitQuote == InitWith([human |-> SmallHuman, judges |-> SmallJudges, faults |-> 0,
                       toastFaults |-> FALSE, latencies |-> PollLatencies,
                       replies |-> JudgeReplies])

NextQuote == Next \/ QuoteStep

SpecQuote == InitQuote /\ [][NextQuote]_vars

\* The user opens another session.
OpenSession(s) ==
  /\ s \notin live
  /\ live' = live \cup {s}
  /\ UNCHANGED <<plugin, passes, msgs, nextJudge, limits, speech, announcer, reading, failures, history>>

\* Runs with two sessions of the user's, the second one worked in like the first.
PairStep ==
  \/ \E s \in MoreUsers : OpenSession(s)
  \/ \E s \in MoreUsers \cap live : SessionIdle(s)
  \/ \E s \in MoreUsers \cap live : HumanMessage(s)
  \/ \E s \in MoreUsers \cap live : AgentReply(s)
  \/ \E s \in MoreUsers \cap live : AgentAborted(s)

InitPair == InitWith([human |-> SmallHuman, judges |-> SmallJudges, faults |-> 0,
                      toastFaults |-> FALSE, latencies |-> PollLatencies,
                      replies |-> {IncompleteReply}])

NextPair == Next \/ PairStep

SpecPair == InitPair /\ [][NextPair]_vars

\* Runs with every event the host sends: session.error, aborted turns and
\* session.idle for the judge session as for the user's.
InitEvents == InitWith([human |-> SmallHuman, judges |-> SmallJudges, faults |-> 0,
                        toastFaults |-> FALSE, latencies |-> PollLatencies,
                        replies |-> JudgeReplies])

NextEvents == Next \/ AbortStep \/ JudgeIdleStep

SpecEvents == InitEvents /\ [][NextEvents]_vars

\* ------------------------------------------------------------- speech queue
\* src/tts.ts: speak() and the file lock it takes.  A speak() call in flight
\* is the record speakers[q]; its pc names the await it is suspended on.
\* getQueuedTickets (readdir, the reads and the unlinks of stale tickets) and
\* a ticket's writeFile are taken as one step each.

\* What acquireSpeechLock writes into the lock file, and the file that open()
\* has created and writeFile has not yet filled.
LockContent(q, ticket, timestamp) ==
  [written |-> TRUE, processId |-> q, ticketId |-> ticket, timestamp |-> timestamp]
EmptyContent == NoContent

\* Lines 896 and 946: older than SPEECH_LOCK_TIMEOUT.
Stale(timestamp) == now - timestamp > SPEECH_LOCK_TIMEOUT

\* Lines 880-914: the tickets getQueuedTickets returns; the stale ones it unlinks.
getQueuedTickets == {t \in tickets : ~Stale(t.timestamp)}

\* Line 908: sorted by timestamp; tickets of one timestamp stay in the order
\* of the directory listing.
Before(t, u) ==
  \/ t.timestamp < u.timestamp
  \/ t.timestamp = u.timestamp /\ t.processId <= u.processId

\* Lines 916-920.
isMyTurn(ticket) ==
  \E t \in getQueuedTickets : t = ticket /\ \A u \in getQueuedTickets : Before(t, u)

\* The speak() call of q moves to another await.
Moves(q, pc) == [speakers EXCEPT ![q].pc = pc]

\* Lines 2059-2068 and 861-870: speak() takes the timestamp of its ticket.
createSpeechTicket(q) ==
  /\ speakers[q].pc = "idle"
  /\ speakers' = [speakers EXCEPT ![q] =
                    [pc |-> "writeTicket",
                     ticket |-> [processId |-> q, timestamp |-> now],
                     startTime |-> 0, lockTimestamp |-> 0]]
  /\ UNCHANGED <<lockFile, tickets, now, reflection, announcer, reading>>

\* Lines 871-872 and 975: the ticket file is written; waitForSpeechTurn starts.
WriteTicket(q) ==
  /\ speakers[q].pc = "writeTicket"
  /\ tickets' = tickets \cup {speakers[q].ticket}
  /\ speakers' = [speakers EXCEPT ![q].pc = "turn", ![q].startTime = now]
  /\ UNCHANGED <<lockFile, now, reflection, announcer, reading>>

\* Lines 977-979: the loop of waitForSpeechTurn asks whether it is its turn.
waitForSpeechTurn(q) ==
  /\ speakers[q].pc = "turn"
  /\ tickets' = getQueuedTickets
  /\ speakers' = Moves(q, IF isMyTurn(speakers[q].ticket) THEN "acquire" ELSE "sleep")
  /\ UNCHANGED <<lockFile, now, reflection, announcer, reading>>

\* Lines 922-932: acquireSpeechLock asks again and stamps its lock content.
acquireSpeechLock(q) ==
  /\ speakers[q].pc = "acquire"
  /\ tickets' = getQueuedTickets
  /\ speakers' = IF isMyTurn(speakers[q].ticket)
                 THEN [speakers EXCEPT ![q].pc = "open", ![q].lockTimestamp = now]
                 ELSE Moves(q, "sleep")
  /\ UNCHANGED <<lockFile, now, reflection, announcer, reading>>

\* Lines 934-936 and 940-941: open(SPEECH_LOCK_PATH, "wx") creates the file,
\* empty, or fails with EEXIST.
OpenLock(q) ==
  /\ speakers[q].pc = "open"
  /\ IF lockFile.exists
     THEN /\ speakers' = Moves(q, "readLock")
          /\ UNCHANGED lockFile
     ELSE /\ lockFile' = [exists |-> TRUE, creator |-> q, content |-> EmptyContent]
          /\ speakers' = Moves(q, "write")
  /\ UNCHANGED <<tickets, now, reflection, announcer, reading>>

\* Lines 937-939: handle.writeFile fills the file the handle is open on,
\* whether or not it is still the file at SPEECH_LOCK_PATH; acquireSpeechLock
\* returns true and speak() goes on to speak.
WriteLock(q) ==
  /\ speakers[q].pc = "write"
  /\ lockFile' = IF lockFile.exists /\ lockFile.creator = q
                 THEN [lockFile EXCEPT !.content =
                         LockContent(q, speakers[q].ticket, speakers[q].lockTimestamp)]
                 ELSE lockFile
  /\ speakers' = Moves(q, "speaking")
  /\ UNCHANGED <<tickets, now, reflection, announcer, reading>>

\* Lines 943-946 and 951-952: on EEXIST the lock is read; a stale lock and one
\* that does not read as JSON are to be removed, any other one is respected.
ReadLock(q) ==
  /\ speakers[q].pc = "readLock"
  /\ speakers' = Moves(q, IF ~lockFile.exists \/ ~lockFile.content.written
                          THEN "unlinkLock"
                          ELSE IF Stale(lockFile.content.timestamp)
                               THEN "unlinkLock"
                               ELSE "sleep")
  /\ UNCHANGED <<lockFile, tickets, now, reflection, announcer, reading>>

\* Lines 948-949 and 953-954: unlink(SPEECH_LOCK_PATH), then acquire again.
UnlinkLock(q) ==
  /\ speakers[q].pc = "unlinkLock"
  /\ lockFile' = NoFile
  /\ speakers' = Moves(q, "acquire")
  /\ UNCHANGED <<tickets, now, reflection, announcer, reading>>

\* Lines 986 and 977: after the sleep the loop goes round again.
Retry(q) ==
  /\ speakers[q].pc = "sleep"
  /\ now - speakers[q].startTime < SPEECH_TURN_TIMEOUT
  /\ speakers' = Moves(q, "turn")
  /\ UNCHANGED <<lockFile, tickets, now, reflection, announcer, reading>>

\* Lines 989-991 and 2070-2073: the wait times out; speak() gives up.
GiveUp(q) ==
  /\ speakers[q].pc = "sleep"
  /\ ~(now - speakers[q].startTime < SPEECH_TURN_TIMEOUT)
  /\ tickets' = tickets \ {speakers[q].ticket}
  /\ speakers' = [speakers EXCEPT ![q] = NoSpeaker]
  /\ UNCHANGED <<lockFile, now, reflection, announcer, reading>>

\* What the engines of lines 2075-2109 end in: one of them spoke and speak()
\* returns from inside the try, none did (speakWithOS resolves all the same),
\* or a call threw.
EngineOutcomes == {"success", "failure", "exception"}

AfterEngine_NoFinally(outcome) == IF outcome = "exception" THEN "idle" ELSE "release"

\* Lines 2110-2113: the finally block runs whatever the try block ended in.
AfterEngine(outcome) == "release"

\* Lines 2075-2110: the engines are done; the finally block begins.
Spoken(q) ==
  /\ speakers[q].pc = "speaking"
  /\ \E outcome \in EngineOutcomes : speakers' = Moves(q, AfterEngine(outcome))
  /\ UNCHANGED <<lockFile, tickets, now, reflection, announcer, reading>>

\* Lines 961-966 and 969-971: releaseSpeechLock reads the lock and checks whose it is.
releaseSpeechLock(q) ==
  /\ speakers[q].pc = "release"
  /\ speakers' = Moves(q, IF /\ lockFile.exists
                             /\ lockFile.content.written
                             /\ lockFile.content.processId = q
                             /\ lockFile.content.ticketId = speakers[q].ticket
                          THEN "releaseUnlink"
                          ELSE "removeTicket")
  /\ UNCHANGED <<lockFile, tickets, now, reflection, announcer, reading>>

\* Line 967: unlink(SPEECH_LOCK_PATH).
ReleaseUnlink(q) ==
  /\ speakers[q].pc = "releaseUnlink"
  /\ lockFile' = NoFile
  /\ speakers' = Moves(q, "removeTicket")
  /\ UNCHANGED <<tickets, now, reflection, announcer, reading>>

\* Lines 2112 and 875-878: removeSpeechTicket; speak() returns.
removeSpeechTicket(q) ==
  /\ speakers[q].pc = "removeTicket"
  /\ tickets' = tickets \ {speakers[q].ticket}
  /\ speakers' = [speakers EXCEPT ![q] = NoSpeaker]
  /\ UNCHANGED <<lockFile, now, reflection, announcer, reading>>

\* Time passes.
Tick ==
  /\ now < MaxClock
  /\ \E d \in Elapses : now' = now + d
  /\ UNCHANGED <<lockFile, tickets, speakers, reflection, announcer, reading>>

SpeechStep ==
  \/ \E q \in Procs : createSpeechTicket(q)
  \/ \E q \in Procs : WriteTicket(q)
  \/ \E q \in Procs : waitForSpeechTurn(q)
  \/ \E q \in Procs : acquireSpeechLock(q)
  \/ \E q \in Procs : OpenLock(q)
  \/ \E q \in Procs : WriteLock(q)
  \/ \E q \in Procs : ReadLock(q)
  \/ \E q \in Procs : UnlinkLock(q)
  \/ \E q \in Procs : Retry(q)
  \/ \E q \in Procs : GiveUp(q)
  \/ \E q \in Procs : Spoken(q)
  \/ \E q \in Procs : releaseSpeechLock(q)
  \/ \E q \in Procs : ReleaseUnlink(q)
  \/ \E q \in Procs : removeSpeechTicket(q)
  \/ Tick

\* Runs of the speech queue alone: no session of the reflection plugin moves.
InitSpeech == InitWith([human |-> 0, judges |-> 0, faults |-> 0, toastFaults |-> FALSE,
                        latencies |-> PollLatencies, replies |-> {}])

SpecSpeech == InitSpeech /\ [][SpeechStep]_vars

\* ------------------------------------------------------- TTS event handler
\* src/tts.ts lines 2116-2213.  An event handler call in flight is a record of
\* idleCalls, suspended on its messages RPC.  isEnabled and debugLog touch no
\* state of the plugin; their awaits are folded into the step around them.
\* The speak() call the handler ends with is followed by the speech queue.

\* Lines 2116-2124: the last assistant message carries a completion time.
RECURSIVE isSessionComplete(_)
isSessionComplete(messages) ==
  IF messages = <<>> THEN FALSE
  ELSE LET msg == messages[Len(messages)] IN
       IF msg.role = "assistant" THEN msg.completed
       ELSE isSessionComplete(SubSeq(messages, 1, Len(messages) - 1))

\* Lines 2126-2135.
ttsIsJudgeSession(messages) == HasJudgeMarker(messages)

\* Lines 2033-2045: from the end, the first assistant message with a text; <<>> is null.
RECURSIVE extractFinalResponse(_)
extractFinalResponse(messages) ==
  IF messages = <<>> THEN <<>>
  ELSE LET msg == messages[Len(messages)] IN
       IF msg.role = "assistant" /\ FirstText(msg.parts) # <<>>
       THEN FirstText(msg.parts)
       ELSE extractFinalResponse(SubSeq(messages, 1, Len(messages) - 1))

\* Lines 2171-2201: the handler goes on to speak.
WillSpeak(messages) ==
  /\ Len(messages) >= 2
  /\ ~ttsIsJudgeSession(messages)
  /\ isSessionComplete(messages)
  /\ extractFinalResponse(messages) # <<>>

\* Lines 2151-2169: session.idle; a disabled plugin and a session already
\* spoken for return at once.
TtsSessionIdle(s) ==
  /\ idleCount < MaxIdles
  /\ idleCount' = idleCount + 1
  /\ \E enabled \in BOOLEAN :
       idleCalls' = IF enabled /\ s \notin spokenSessions
                    THEN idleCalls \cup {[sid |-> s, n |-> idleCount + 1]}
                    ELSE idleCalls
  /\ UNCHANGED <<spokenSessions, speakCalls, reflection, speech, reading>>

\* Lines 2171-2210: the messages RPC returns or throws.
TtsMessagesReturn(e) ==
  /\ e.sid \in live
  /\ idleCalls' = idleCalls \ {e}
  /\ \E outcome \in {"ok", "throw"} :
       IF outcome = "ok" /\ WillSpeak(msgs[e.sid])
       THEN /\ spokenSessions' = spokenSessions \cup {e.sid}
            /\ speakCalls' = MapSet(speakCalls, e.sid, MapGet(speakCalls, e.sid, 0) + 1)
       ELSE UNCHANGED <<spokenSessions, speakCalls>>
  /\ UNCHANGED <<idleCount, reflection, speech, reading>>

TtsStep ==
  \/ \E s \in Users : TtsSessionIdle(s)
  \/ \E e \in idleCalls : TtsMessagesReturn(e)
  \/ \E s \in Users : HumanMessage(s)
  \/ \E s \in Users : AgentReply(s)

\* Runs of the TTS plugin on the user's session: the reflection plugin is off.
InitTts == InitWith([human |-> MaxHuman, judges |-> 0, faults |-> 0, toastFaults |-> FALSE,
                     latencies |-> PollLatencies, replies |-> {}])

SpecTts == InitTts /\ [][TtsStep]_vars

\* ------------------------------------------------------- transcripts read
\* waitForResponse (one poll) and extractTaskAndResult applied to the
\* transcripts a messages RPC can return: any sequence of the messages below.
FeedbackPrompt == <<REFLECTION_MARKER, "Task Incomplete (1/3)">>
ManyTools == <<ToolPart("t1"), ToolPart("t2"), ToolPart("t3"),
               ToolPart("t4"), ToolPart("t5"), ToolPart("t6")>>
MoreTools == <<ToolPart("t7"), ToolPart("t8"), ToolPart("t9"),
               ToolPart("t10"), ToolPart("t11")>>

SnapshotMessages ==
  { UserMessage(HumanTexts[1]),
    UserMessage(HumanTexts[2]),
    UserMessage(FeedbackPrompt),
    UserMessage(<<JUDGE_MARKER, "the task", "the result">>),
    Message("user", <<TextPart(FeedbackPrompt), TextPart(HumanTexts[3])>>, NoError, TRUE),
    Message("user", <<TextPart(<<>>)>>, NoError, TRUE),
    Message("user", <<TextPart(HumanTexts[2]), TextPart(HumanTexts[3])>>, NoError, TRUE),
    Message("assistant", <<TextPart(AgentText)>>, NoError, TRUE),
    Message("assistant", <<TextPart(<<"working on it">>), ToolPart("edit"),
                           TextPart(<<"all done">>)>>, NoError, TRUE),
    Message("assistant", <<TextPart(<<"{">>)>>, NoError, FALSE),
    Message("assistant", ManyTools, NoError, TRUE),
    Message("assistant", MoreTools \o <<TextPart(<<>>)>>, NoError, TRUE) }

\* Lines 446-452 and 406-440: the RPC returns a transcript one message longer;
\* the poll and the extraction are applied to it.
ReadSnapshot(m) ==
  /\ Len(snapshot) < MaxSnapshot
  /\ snapshot' = Append(snapshot, m)
  /\ polled' = PollText(snapshot')
  /\ extraction' = extractTaskAndResult(snapshot')
  /\ UNCHANGED <<reflection, speech, announcer, aborted>>

\* Line 448: the RPC returns no messages (messages || []).
ClearSnapshot ==
  /\ snapshot # <<>>
  /\ snapshot' = <<>>
  /\ polled' = PollText(snapshot')
  /\ extraction' = extractTaskAndResult(snapshot')
  /\ UNCHANGED <<reflection, speech, announcer, aborted>>

ReadStep ==
  \/ \E m \in SnapshotMessages : ReadSnapshot(m)
  \/ ClearSnapshot

InitRead == InitWith([human |-> 0, judges |-> 0, faults |-> 0, toastFaults |-> FALSE,
                      latencies |-> PollLatencies, replies |-> {}])

SpecRead == InitRead /\ [][ReadStep]_vars

\* wasSessionAborted applied to the transcripts a messages RPC can return: any
\* sequence of the messages below, for a session the plugin may already hold
\* in abortedSessions.
CancelledError == [name |-> "MessageAbortedError", data |-> <<>>,
                   message |-> <<"User cancelled">>]
AbortedRequest == [name |-> "APIError", data |-> <<"Request ABORTED">>, message |-> <<>>]
AuthError == [name |-> "ProviderAuthError", data |-> <<>>, message |-> <<"invalid api key">>]
RateLimited == [name |-> "APIError", data |-> <<"rate limited">>,
                message |-> <<"Request ABORTED">>]

AbortedMessages ==
  { UserMessage(HumanTexts[1]),
    Message("user", <<TextPart(HumanTexts[2])>>, CancelledError, TRUE),
    Message("assistant", <<TextPart(AgentText)>>, NoError, TRUE),
    Message("assistant", <<TextPart(<<"I'll start...">>)>>, CancelledError, TRUE),
    Message("assistant", <<TextPart(<<"I'll start...">>)>>, AbortedRequest, TRUE),
    Message("assistant", <<TextPart(<<"I'll start...">>)>>, AuthError, TRUE),
    Message("assistant", <<TextPart(<<"I'll start...">>)>>, RateLimited, TRUE) }

\* What a session's transcript grows by between two calls: one message or a
\* turn of two.
Grown ==
  {<<m>> : m \in AbortedMessages} \cup {<<m, n>> : m \in AbortedMessages, n \in AbortedMessages}

\* Lines 362-388: the call on the transcript as it has grown.
CheckAborted(s, added) ==
  /\ Len(snapshot) + Len(added) <= MaxSnapshot
  /\ snapshot' = snapshot \o added
  /\ aborted' = wasSessionAborted(s, snapshot')
  /\ abortedSessions' = AbortedAfterCheck(s, snapshot')
  /\ UNCHANGED <<attempts, lastReflectedMsgCount, activeReflections, judgeSessionIds,
                 passes, host, limits, failures, history, speech, announcer,
                 polled, extraction>>

\* The call on the transcript of a session without messages.
CheckEmpty(s) ==
  /\ snapshot # <<>>
  /\ snapshot' = <<>>
  /\ aborted' = wasSessionAborted(s, snapshot')
  /\ abortedSessions' = AbortedAfterCheck(s, snapshot')
  /\ UNCHANGED <<attempts, lastReflectedMsgCount, activeReflections, judgeSessionIds,
                 passes, host, limits, failures, history, speech, announcer,
                 polled, extraction>>

AbortedStep ==
  \/ \E s \in Users, added \in Grown : CheckAborted(s, added)
  \/ \E s \in Users : CheckEmpty(s)
  \/ \E s \in Users : SessionError(s, "MessageAbortedError")

InitAborted == InitWith([human |-> 0, judges |-> 0, faults |-> 0, toastFaults |-> FALSE,
                         latencies |-> PollLatencies, replies |-> {}])

SpecAborted == InitAborted /\ [][AbortedStep]_vars

\* ==================================================================== claims
KeyOf(p) == getAttemptKey(p.sid, p.humanMsgCount)
\* The pass p takes a step.
Steps(p) == p \in passes /\ p \notin passes'
\* What a poll of the judge session of p reads now.
ReplyOf(p) == PollText(IF p.judge \in live THEN msgs[p.judge] ELSE <<>>)
TheUser == "u1"

\* C1: a generation gets at most MAX_ATTEMPTS feedback prompts, and a pass
\* whose generation has used up its attempts never gets to create a judge
\* session.
C1_AttemptCap ==
  /\ \A k \in DOMAIN fbLabels : Len(fbLabels[k]) <= MAX_ATTEMPTS
  /\ \A p \in passes :
       p.pc \in {"create", "judgePrompt", "poll", "feedback"}
         => MapGet(attempts, KeyOf(p), 0) - (IF p.pc = "feedback" THEN 1 ELSE 0)
              < MAX_ATTEMPTS

\* Three prompts were sent for the first task and a later idle event hit the cap.
C1_Witness ==
  /\ MapGet(fbLabels, <<TheUser, 1>>, <<>>) = <<1, 2, 3>>
  /\ MapGet(toasts, <<<<TheUser, 1>>, "warning", "Max attempts reached">>, 0) = 1
  /\ MapGet(judged, <<TheUser, 1>>, 0) = 3

\* C2: a complete verdict publishes a success notification and sends nothing
\* to the session; from then on no judge session is created and no prompt is
\* sent for that generation.
C2_CompleteSettles ==
  [][\A s \in Users : \A h \in 1..limits.human :
       LET k == getAttemptKey(s, h) IN
       /\ (k \in completedGens' /\ k \notin completedGens)
            => /\ \E m \in {"Task complete", "Task complete (severity)"} :
                    MapGet(toasts', <<k, "success", m>>, 0)
                      = MapGet(toasts, <<k, "success", m>>, 0) + 1
               /\ fbLabels' = fbLabels
               /\ msgs'[s] = msgs[s]
               /\ \A p \in passes' : p.sid = s => p.pc = "delete"
       /\ k \in completedGens
            => /\ MapGet(judged', k, 0) = MapGet(judged, k, 0)
               /\ MapGet(fbLabels', k, <<>>) = MapGet(fbLabels, k, <<>>)
               /\ \A p \in passes' :
                    (p.sid = s /\ p.humanMsgCount = h) => p.pc = "delete"
    ]_vars

\* The first task was judged complete, and a later idle event for the same
\* generation has started a pass.
C2_Witness ==
  /\ <<TheUser, 1>> \in completedGens
  /\ countHumanMessages(msgs[TheUser]) = 1
  /\ \E p \in passes : p.sid = TheUser /\ p.pc = "messages"

\* C3: an incomplete verdict sends one feedback prompt with the verdict's
\* feedback text to the session, raises the attempt count by one and leaves
\* the generation unsettled; the next pass on that generation goes on to a
\* judge session.
C3_IncompleteContinues ==
  [][\A p \in passes :
       /\ (Steps(p) /\ p.pc = "poll" /\ ReplyOf(p) = IncompleteReply)
            => /\ \E q \in passes' :
                    /\ q = [p EXCEPT !.pc = "feedback", !.elapsed = 0, !.polls = 0,
                                      !.text = q.text,
                                      !.notified = TRUE]
                    /\ Includes(q.text, REFLECTION_MARKER)
                    /\ Includes(q.text, "no test evidence shown")
               /\ attempts' = MapSet(attempts, KeyOf(p), MapGet(attempts, KeyOf(p), 0) + 1)
               /\ lastReflectedMsgCount' = lastReflectedMsgCount
               /\ MapGet(lastReflectedMsgCount, p.sid, 0) < p.humanMsgCount
               /\ KeyOf(p) \notin completedGens'
               /\ Len(MapGet(fbLabels', KeyOf(p), <<>>))
                    = Len(MapGet(fbLabels, KeyOf(p), <<>>)) + 1
       /\ (Steps(p) /\ p.pc = "feedback")
            => msgs' = [msgs EXCEPT ![p.sid] = Append(@, UserMessage(p.text))]
       /\ (Steps(p) /\ p.pc = "messages"
             /\ Len(msgs[p.sid]) >= 2
             /\ msgs[p.sid][Len(msgs[p.sid])].role = "assistant"
             /\ LET k == getAttemptKey(p.sid, countHumanMessages(msgs[p.sid])) IN
                /\ MapGet(attempts, k, 0) \in 1..(MAX_ATTEMPTS - 1)
                /\ MapGet(lastReflectedMsgCount, p.sid, 0) < k[2])
            => \E q \in passes' :
                  /\ q.sid = p.sid /\ q.pc = "create"
                  /\ q.humanMsgCount = countHumanMessages(msgs[p.sid])
                  /\ q.attemptCount = MapGet(attempts, KeyOf(q), 0)
    ]_vars

\* After one feedback round on the first task, the next pass asks for a judge.
C3_Witness ==
  /\ MapGet(fbLabels, <<TheUser, 1>>, <<>>) = <<1>>
  /\ MapGet(lastReflectedMsgCount, TheUser, 0) = 0
  /\ \E p \in passes : p.sid = TheUser /\ p.pc = "create" /\ p.attemptCount = 1
                        /\ p.humanMsgCount = 1

\* C4: a verdict counts as complete exactly if its complete flag is true and
\* its severity is not BLOCKER; an absent severity is MEDIUM.
C4_BlockerOverride ==
  [][\A p \in passes :
       (Steps(p) /\ p.pc = "poll" /\ ReplyOf(p) \in VerdictReplies)
         => LET reply == ReplyOf(p)
                complete == Includes(reply, "complete: true")
                blocker == Includes(reply, "severity: BLOCKER")
                absent == \A f \in SeverityFields : ~Includes(reply, f)
            IN IF complete /\ ~blocker
               THEN /\ KeyOf(p) \in completedGens'
                    /\ MapGet(lastReflectedMsgCount', p.sid, 0) = p.humanMsgCount
                    /\ fbLabels' = fbLabels
                    /\ \E q \in passes' : q.sid = p.sid /\ q.pc = "delete"
               ELSE /\ KeyOf(p) \notin completedGens'
                    /\ lastReflectedMsgCount' = lastReflectedMsgCount
                    /\ fbLabels' # fbLabels
                    /\ \E q \in passes' :
                         /\ q.sid = p.sid /\ q.pc = "feedback"
                         /\ absent => Includes(q.text, "MEDIUM")
                         /\ blocker => Includes(q.text, "BLOCKER")
    ]_vars

\* A verdict complete: true with severity BLOCKER led to a feedback prompt.
C4_Witness ==
  \E p \in passes :
     /\ p.pc = "feedback"
     /\ Includes(p.text, "BLOCKER")
     /\ p.judge \in live
     /\ Includes(ReplyOf(p), "complete: true")

\* C5: at most one pass is in flight per session, and a session.idle for a
\* session with a pass in flight changes nothing.
C5_OnePassPerSession ==
  /\ [](/\ \A p \in passes : \A q \in passes : p.sid = q.sid => p = q
        /\ activeReflections = {p.sid : p \in passes})
  /\ [][\A s \in Users :
          ((\E p \in passes : p.sid = s) /\ SessionIdle(s)) => UNCHANGED vars]_vars

\* A pass on the user's session is polling its judge: an idle event may come.
C5_Witness ==
  \E p \in passes : p.sid = TheUser /\ p.pc = "poll" /\ TheUser \in activeReflections

Judges == JudgeSessions
HasFeedback(messages) ==
  \E i \in 1..Len(messages) : \E k \in 1..Len(messages[i].parts) :
     /\ messages[i].parts[k].type = "text"
     /\ Includes(messages[i].parts[k].text, REFLECTION_MARKER)

\* C6: a session.idle for a judge session, whenever it comes, never gets a
\* judge session created for it nor a feedback prompt sent to it: a pass on a
\* judge session ends at its first checks.
C6_JudgeNeverReflected ==
  /\ \A p \in passes : p.sid \in Judges => p.pc = "messages"
  /\ \A k \in DOMAIN judged : k[1] \in Users
  /\ \A k \in DOMAIN fbLabels : k[1] \in Users
  /\ \A j \in Judges : ~HasFeedback(msgs[j])

\* The judge session survived a failed delete, is no longer in judgeSessionIds
\* and a session.idle for it has started a pass.
C6_Witness ==
  LET j == JudgeId(1) IN
  /\ j \in live
  /\ j \notin judgeSessionIds
  /\ Len(msgs[j]) = 2
  /\ \E p \in passes : p.sid = j /\ p.pc = "messages"
  /\ \A p \in passes : p.judge # j

\* C7: once a session id is in abortedSessions no feedback prompt is sent to
\* that session, a pass already in flight included.
C7_NoPromptAfterAbort ==
  [][\A p \in passes :
       (Steps(p) /\ p.sid \in abortedSessions)
         => /\ MapGet(fbLabels', KeyOf(p), <<>>) = MapGet(fbLabels, KeyOf(p), <<>>)
            /\ \A q \in passes' : q.sid = p.sid => q.pc # "feedback"
    ]_vars

\* C8: abortedSessions only grows; a transcript check that found an abort
\* leaves the id in abortedSessions; for an id in abortedSessions
\* wasSessionAborted is true whatever the transcript, and a session.idle
\* starts no pass.
C8_AbortSticky ==
  /\ [](\A s \in abortedSessions :
          /\ wasSessionAborted(s, msgs[s])
          /\ wasSessionAborted(s, <<>>))
  /\ [][/\ abortedSessions \subseteq abortedSessions'
        /\ \A s \in abortedSessions :
             /\ s \notin activeReflections => s \notin activeReflections'
             /\ \A q \in passes' : q.sid = s => \E p \in passes : p.sid = s
        /\ \A p \in passes :
             (Steps(p) /\ p.pc = "messages" /\ Len(msgs[p.sid]) >= 2
                /\ wasSessionAborted(p.sid, msgs[p.sid]))
               => /\ p.sid \in abortedSessions'
                  /\ \A q \in passes' : q.sid # p.sid
    ]_vars

\* An abort was found in the transcript; the user has since sent a second
\* message and the agent has answered it without error.
C8_Witness ==
  /\ TheUser \in abortedSessions
  /\ HasAbortError(msgs[TheUser])
  /\ countHumanMessages(msgs[TheUser]) = 2
  /\ msgs[TheUser][Len(msgs[TheUser])].role = "assistant"
  /\ msgs[TheUser][Len(msgs[TheUser])].error = NoError
  /\ passes = {}

\* C9: when generation g of a session is exhausted (its count reached
\* MAX_ATTEMPTS, or it was settled) and the user has sent one more message,
\* the next pass is one for generation g + 1 with attempt count 0: it goes on
\* to a judge session.
C9_GenerationReset ==
  [][\A p \in passes :
       LET s == p.sid
           h == countHumanMessages(msgs[s])
           last == msgs[s][Len(msgs[s])]
       IN
       (/\ Steps(p) /\ p.pc = "messages" /\ s \in Users
        /\ h >= 2
        /\ last.role = "assistant" /\ last.error = NoError
        /\ \/ MapGet(attempts, <<s, h - 1>>, 0) >= MAX_ATTEMPTS
           \/ MapGet(lastReflectedMsgCount, s, 0) = h - 1
        /\ MapGet(lastReflectedMsgCount, s, 0) < h
        /\ MapGet(fbLabels, <<s, h>>, <<>>) = <<>>)
         => \E q \in passes' :
               /\ q.sid = s /\ q.pc = "create"
               /\ q.humanMsgCount = h
               /\ q.attemptCount = 0
    ]_vars

\* Three feedback rounds on the first task, and three again on the second.
C9_Witness ==
  /\ MapGet(fbLabels, <<TheUser, 1>>, <<>>) = <<1, 2, 3>>
  /\ MapGet(fbLabels, <<TheUser, 2>>, <<>>) = <<1, 2, 3>>
  /\ MapGet(attempts, <<TheUser, 2>>, 0) = MAX_ATTEMPTS

\* The poll loop of pass p ends in this step without a reply: Timeout.
TimesOut(p) ==
  /\ Steps(p) /\ p.pc = "poll" /\ ReplyOf(p) = <<>>
  /\ \E q \in passes' : q.sid = p.sid /\ q.pc = "delete"

\* C11 as stated: a timeout does not mark the generation settled.
C11_TimeoutUnsettled ==
  [][\A p \in passes :
       TimesOut(p) => MapGet(lastReflectedMsgCount', p.sid, 0) < p.humanMsgCount]_vars

\* C11, amended: a timeout marks the generation settled: it stores the
\* human-message count of the pass in lastReflectedMsgCount, which never
\* decreases, and no judge session is created for a generation at or below it.
C11_TimeoutSettles ==
  [][/\ \A p \in passes :
          TimesOut(p)
            => /\ MapGet(lastReflectedMsgCount', p.sid, 0) = p.humanMsgCount
               /\ p.humanMsgCount > 0
     /\ \A s \in Users :
          MapGet(lastReflectedMsgCount', s, 0) >= MapGet(lastReflectedMsgCount, s, 0)
     /\ \A s \in Users : \A h \in 1..limits.human :
             h <= MapGet(lastReflectedMsgCount, s, 0)
               => /\ MapGet(judged', <<s, h>>, 0) = MapGet(judged, <<s, h>>, 0)
                  /\ \A q \in passes' :
                       ~(q.sid = s /\ q.humanMsgCount = h
                           /\ q.pc \in {"create", "judgePrompt", "poll"})
    ]_vars

\* The judge never answered: the poll loop of the pass ran out, the
\* generation is marked and the pass is cleaning up.
C11_Witness ==
  \E p \in passes :
     /\ p.sid = TheUser /\ p.pc = "delete" /\ p.humanMsgCount = 1
     /\ p.judge \in live /\ Len(msgs[p.judge]) = 1
     /\ MapGet(lastReflectedMsgCount, TheUser, 0) = 1
     /\ MapGet(attempts, <<TheUser, 1>>, 0) = 0

\* The judge replies that hold no JSON object: one without a brace-delimited
\* part, and one whose brace-delimited part is not JSON.
Unparseable(reply) ==
  reply \in {<<"I cannot judge this">>, <<"{", "complete: maybe", "}">>}

\* C12: an unparseable judge reply leaves the settlement mark, the attempt
\* counts and the prompts sent as a timeout of the same pass would.
C12_ParseErrorLikeTimeout ==
  [][\A p \in passes :
       (Steps(p) /\ p.pc = "poll" /\ Unparseable(ReplyOf(p)))
         => /\ lastReflectedMsgCount' = OnTimeout(p.sid, p.humanMsgCount)
            /\ attempts' = attempts
            /\ fbLabels' = fbLabels
            /\ msgs'[p.sid] = msgs[p.sid]
    ]_vars

\* C13: a pass that ends in Timeout or ParseError leaves the attempt counts
\* alone, sends no prompt to the session and publishes no verdict; so does
\* its cleanup.
C13_NoPenaltyNoApproval ==
  [][\A p \in passes :
       /\ (TimesOut(p) \/ (Steps(p) /\ p.pc = "poll" /\ Unparseable(ReplyOf(p))))
            => /\ attempts' = attempts
               /\ fbLabels' = fbLabels
               /\ msgs' = msgs
               /\ completedGens' = completedGens
               /\ toasts' = toasts
               /\ \E q \in passes' : q.sid = p.sid /\ q.pc = "delete"
       /\ (Steps(p) /\ p.pc = "delete")
            => /\ attempts' = attempts
               /\ fbLabels' = fbLabels
               /\ msgs'[p.sid] = msgs[p.sid]
               /\ completedGens' = completedGens
    ]_vars

\* The judge's reply was not JSON: the pass is cleaning up with the attempt
\* count of the task still 0 and nothing sent.
C13_Witness ==
  \E p \in passes :
     /\ p.sid = TheUser /\ p.pc = "delete" /\ p.humanMsgCount = 1
     /\ p.judge \in live
     /\ ReplyOf(p) = <<"{", "complete: maybe", "}">>
     /\ attempts = <<>> /\ fbLabels = <<>>
     /\ ~HasFeedback(msgs[TheUser])

C15_AlwaysNotifies ==
  [][\A p \in passes :
       (Steps(p) /\ p.judge # NoJudge /\ \A q \in passes' : q.sid # p.sid)
         => p.notified]_vars

\* C16: once a pass holds a judge session it returns only through the
\* cleanup: the delete is attempted, the id leaves judgeSessionIds whether or
\* not the delete failed, and the delete changes nothing else of the
\* controller's state.
C16_CleanupAlwaysRuns ==
  /\ [](\A j \in judgeSessionIds :
          \E p \in passes : p.judge = j /\ p.pc \in {"judgePrompt", "poll", "feedback", "delete"})
  /\ [][\A p \in passes :
          (Steps(p) /\ p.judge # NoJudge /\ p.pc # "create")
            => IF p.pc = "delete"
               THEN /\ p.judge \notin judgeSessionIds'
                    /\ \A q \in passes' : q.sid # p.sid
                    /\ activeReflections' = activeReflections \ {p.sid}
                    /\ live' \in {live, live \ {p.judge}}
                    /\ <<attempts, lastReflectedMsgCount, abortedSessions>>'
                         = <<attempts, lastReflectedMsgCount, abortedSessions>>
                    /\ <<fbLabels, completedGens, toasts>>' = <<fbLabels, completedGens, toasts>>
               ELSE \E q \in passes' : q.sid = p.sid /\ q.judge = p.judge
     ]_vars

\* A complete verdict was applied and the delete of the judge session
\* failed: the session is still there, its id is gone from judgeSessionIds.
C16_Witness ==
  LET j == JudgeId(1) IN
  /\ failures = 1
  /\ passes = {}
  /\ j \in live /\ j \notin judgeSessionIds
  /\ <<TheUser, 1>> \in completedGens
  /\ MapGet(lastReflectedMsgCount, TheUser, 0) = 1

\* C17: for a session and a task generation, the passes that create a judge
\* session number at most MAX_ATTEMPTS.
C17_RoundsBounded ==
  \A k \in DOMAIN judged : judged[k] <= MAX_ATTEMPTS

MaxPolls == JUDGE_RESPONSE_TIMEOUT \div POLL_INTERVAL

\* C18: waitForResponse polls at most JUDGE_RESPONSE_TIMEOUT / POLL_INTERVAL
\* times: a pass is in the loop only while less than the timeout has elapsed,
\* every poll takes at least POLL_INTERVAL, and the poll that uses up the
\* budget without a reply ends the wait in Timeout.
C18_PollsBounded ==
  /\ [](\A p \in passes :
          p.pc = "poll"
            => /\ p.elapsed < JUDGE_RESPONSE_TIMEOUT
               /\ p.polls * POLL_INTERVAL <= p.elapsed
               /\ p.polls < MaxPolls)
  /\ [][\A p \in passes :
          (Steps(p) /\ p.pc = "poll" /\ ReplyOf(p) = <<>>
             /\ \A q \in passes' : q.sid = p.sid => q.pc # "poll")
            => /\ TimesOut(p)
               /\ p.polls < MaxPolls
               /\ \E latency \in limits.latencies :
                    p.elapsed + POLL_INTERVAL + latency >= JUDGE_RESPONSE_TIMEOUT
     ]_vars

\* The wait is in its last round: 89 polls of 2 s each brought no reply.
C18_Witness ==
  \E p \in passes :
     /\ p.pc = "poll" /\ p.polls = MaxPolls - 1
     /\ p.elapsed = (MaxPolls - 1) * POLL_INTERVAL
     /\ ReplyOf(p) = <<>>

\* A transcript has a human text / an assistant text.
HasTask(messages) ==
  \E i \in 1..Len(messages) :
     /\ messages[i].role = "user"
     /\ \E k \in 1..Len(messages[i].parts) :
          /\ messages[i].parts[k].type = "text"
          /\ messages[i].parts[k].text # <<>>
          /\ REFLECTION_MARKER \notin {messages[i].parts[k].text[n] :
                                         n \in 1..Len(messages[i].parts[k].text)}
HasResult(messages) ==
  \E i \in 1..Len(messages) :
     /\ messages[i].role = "assistant"
     /\ \E k \in 1..Len(messages[i].parts) :
          messages[i].parts[k].type = "text" /\ messages[i].parts[k].text # <<>>

\* C19: extractTaskAndResult gives null for the empty transcript and for
\* every transcript without a task or without a result; for one human text
\* followed by one assistant text it gives that task, that result and no
\* tools.  Stated of the transcript of every session, at all times.
C19_ExtractNullable ==
  \A s \in Sessions :
     LET messages == msgs[s]
         extracted == extractTaskAndResult(messages)
     IN
     /\ messages = <<>> => extracted = NullExtract
     /\ (~HasTask(messages) \/ ~HasResult(messages)) => extracted = NullExtract
     /\ (HasTask(messages) /\ HasResult(messages))
          => extracted.ok /\ extracted.task # <<>> /\ extracted.result # <<>>
     /\ (/\ Len(messages) = 2
         /\ messages[1].role = "user" /\ messages[2].role = "assistant"
         /\ HasTask(messages) /\ HasResult(messages)
         /\ Len(messages[1].parts) = 1 /\ Len(messages[2].parts) = 1)
          => extracted = [ok |-> TRUE, task |-> messages[1].parts[1].text,
                          result |-> messages[2].parts[1].text, tools |-> <<>>]

\* A pass has extracted task and result from a transcript of one human
\* message and one reply, and is about to ask for a judge session; the
\* user has typed a second message since, not yet answered.
C19_Witness ==
  /\ Len(msgs[TheUser]) = 3
  /\ msgs[TheUser][3] = UserMessage(HumanTexts[2])
  /\ \E p \in passes :
       /\ p.sid = TheUser /\ p.pc = "create" /\ p.humanMsgCount = 1
       /\ p.text = <<JUDGE_MARKER>> \o HumanTexts[1] \o AgentText

\* C10: the stored count of a key goes from n to n + 1 with each incomplete
\* verdict, never exceeds MAX_ATTEMPTS, and the k-th feedback prompt of a
\* generation is labelled k of MAX_ATTEMPTS.
C10_AttemptMonotone ==
  /\ [](/\ \A k \in DOMAIN attempts : attempts[k] \in 1..MAX_ATTEMPTS
        /\ \A k \in DOMAIN fbLabels :
             /\ \A i \in 1..Len(fbLabels[k]) : fbLabels[k][i] = i
             /\ k \in DOMAIN attempts => attempts[k] = Len(fbLabels[k])
        /\ \A p \in passes :
             p.pc = "feedback"
               => SubSeq(p.text, 1, 5)
                    = <<REFLECTION_MARKER, "Task Incomplete",
                        ToString(Len(fbLabels[KeyOf(p)])), "/", ToString(MAX_ATTEMPTS)>>)
  /\ [][\A p \in passes :
          (Steps(p) /\ p.pc = "poll" /\ \E q \in passes' : q.sid = p.sid /\ q.pc = "feedback")
            => /\ attempts' = MapSet(attempts, KeyOf(p), MapGet(attempts, KeyOf(p), 0) + 1)
               /\ MapGet(attempts', KeyOf(p), 0) = Len(fbLabels'[KeyOf(p)])
     ]_vars

\* The third incomplete verdict of the first task is in: its prompt is going out.
C10_Witness ==
  /\ MapGet(attempts, <<TheUser, 1>>, 0) = MAX_ATTEMPTS
  /\ MapGet(fbLabels, <<TheUser, 1>>, <<>>) = <<1, 2, 3>>
  /\ \E p \in passes : p.sid = TheUser /\ p.pc = "feedback" /\ p.humanMsgCount = 1

\* The speak() calls between a successful acquireSpeechLock and their
\* releaseSpeechLock.
Speaking == {q \in Procs : speakers[q].pc = "speaking"}

\* C20: speech is mutually exclusive across processes: at any time at most
\* one speak() call is between a successful acquireSpeechLock and its
\* releaseSpeechLock, also when a waiting process removes a lock older than
\* SPEECH_LOCK_TIMEOUT as stale.
C20_OneSpeaker == Cardinality(Speaking) <= 1

\* The speak() call of q acquires the speech lock: its open() creates the file.
Acquires(q) == speakers[q].pc = "open" /\ speakers'[q].pc = "write"

\* No ticket in the queue is older than this one (stale tickets left aside, as
\* getQueuedTickets does).
Oldest(ticket) == \A t \in getQueuedTickets : t.timestamp >= ticket.timestamp

\* C21: speech requests are served in FIFO order of their tickets: a request
\* acquires the speech lock only while its ticket is the oldest ticket in the
\* queue, so that of two queued requests the one with the older ticket speaks
\* first.
C21_Fifo ==
  [][\A q \in Procs : Acquires(q) => Oldest(speakers[q].ticket)]_vars

\* C22: no duplicate speech: whatever the sequence and interleaving of the
\* session.idle events for a session, speak() is invoked at most once for it.
C22_SpeakOnce == \A s \in DOMAIN speakCalls : speakCalls[s] <= 1

\* The passes to which session.create has returned a judge id and whose
\* cleanup has not run yet.
HoldsJudge(p) == p.judge # NoJudge /\ p.pc \in {"judgePrompt", "poll", "feedback", "delete"}

\* C23: the judge id is recorded with no suspension point in between: in no
\* state that an event handler call can observe has session.create returned
\* an id to runReflection that is absent from judgeSessionIds.
C23_RecordedAtOnce == \A p \in passes : HoldsJudge(p) => p.judge \in judgeSessionIds

\* A pass has its judge id and is suspended on the judge prompt while the
\* host has not yet reported anything about the judge session.
C23_Witness ==
  \E p \in passes : /\ p.pc = "judgePrompt"
                    /\ p.judge \in judgeSessionIds
                    /\ msgs[p.judge] = <<>>

\* C24: a session.idle event for a session id that is in abortedSessions or
\* in judgeSessionIds is a no-op: it starts no pass, so that no host RPC is
\* issued, and it leaves attempts, lastReflectedMsgCount, activeReflections,
\* abortedSessions and judgeSessionIds as they are.
C24_FastPathNoOp ==
  [][\A s \in Sessions :
       ((s \in abortedSessions \/ s \in judgeSessionIds) /\ SessionIdle(s))
          => UNCHANGED <<plugin, passes, host>>]_vars

\* The user's session is known as aborted while no pass is in flight on it,
\* and earlier a judge session was a known judge while the host kept it.
C24_Witness ==
  /\ TheUser \in abortedSessions
  /\ TheUser \notin activeReflections
  /\ Len(msgs[TheUser]) >= 2
  /\ \E k \in DOMAIN judged : judged[k] >= 1

\* The cap warning of line 504 was published for the key.
CapWarned(k) == MapGet(toasts, <<k, "warning", "Max attempts reached">>, 0) >= 1

\* C25: the attempt record of a (session, generation) is removed from the
\* ledger when the task is judged complete and also when the attempt cap is
\* hit, the cap publishing a warning and ending reflection for the generation:
\* no key judged complete and no key warned about keeps a record.
C25_LedgerCleared == \A k \in DOMAIN attempts : k \notin completedGens /\ ~CapWarned(k)

\* The last assistant message of the transcript read is its a-th message.
IsLastAssistant(a) ==
  /\ a \in 1..Len(snapshot)
  /\ snapshot[a].role = "assistant"
  /\ \A b \in (a + 1)..Len(snapshot) : snapshot[b].role # "assistant"

\* C26: waitForResponse returns a text only from a polled snapshot in which
\* the last assistant message of the judge session has a completion
\* timestamp, and the text is a text part of that message: an uncompleted last
\* assistant message that already has text, or an earlier completed assistant
\* message, never yields a result.
C26_OnlyCompletedLast ==
  polled # <<>> =>
    \E a \in 1..Len(snapshot) :
       /\ IsLastAssistant(a)
       /\ snapshot[a].completed
       /\ \E k \in 1..Len(snapshot[a].parts) :
            snapshot[a].parts[k].type = "text" /\ snapshot[a].parts[k].text = polled

\* A completed assistant message with a text is followed by an uncompleted one
\* that already has text, and the poll has returned nothing.
C26_Witness ==
  /\ Len(snapshot) = 3
  /\ snapshot[2].role = "assistant" /\ snapshot[2].completed
  /\ FirstText(snapshot[2].parts) # <<>>
  /\ snapshot[3].role = "assistant" /\ ~snapshot[3].completed
  /\ FirstText(snapshot[3].parts) # <<>>
  /\ polled = <<>>

\* C27: a messages RPC that throws during a poll does not end the wait:
\* waitForResponse goes on polling unless the time budget is used up, and a
\* later successful poll that sees a completed reply returns that reply, acted
\* upon as it stands, however the transcript grew or shrank between the polls.
C27_PollSurvivesErrors ==
  [][\A p \in passes :
       (Steps(p) /\ p.pc = "poll") =>
         /\ failures' # failures =>
              /\ rejected' = rejected
              /\ \/ \E q \in passes' : q.sid = p.sid /\ q.pc = "poll"
                 \/ \E latency \in limits.latencies :
                      p.elapsed + POLL_INTERVAL + latency >= JUDGE_RESPONSE_TIMEOUT
         /\ (failures' = failures /\ ReplyOf(p) # <<>>) =>
              /\ \A q \in passes' : q.sid = p.sid => q.pc # "poll"
              /\ ReplyOf(p) = CompleteReply => KeyOf(p) \in completedGens'
              /\ ReplyOf(p) = IncompleteReply =>
                   \E q \in passes' : q.sid = p.sid /\ q.pc = "feedback"
     ]_vars

\* A poll threw, a later poll returned the judge's complete verdict.
C27_Witness ==
  \E p \in passes : p.caught >= 1 /\ p.pc = "delete" /\ KeyOf(p) \in completedGens

\* Part k of message i of the transcript read is a user-authored text that
\* does not carry the feedback marker.
HumanTextAt(i, k) ==
  /\ i \in 1..Len(snapshot)
  /\ k \in 1..Len(snapshot[i].parts)
  /\ snapshot[i].role = "user"
  /\ snapshot[i].parts[k].type = "text"
  /\ snapshot[i].parts[k].text # <<>>
  /\ \A n \in 1..Len(snapshot[i].parts[k].text) :
        snapshot[i].parts[k].text[n] # REFLECTION_MARKER
\* The places of the parts of the transcript read, and their order.
Places == {<<i, k>> \in (1..Len(snapshot)) \X (1..7) : k <= Len(snapshot[i].parts)}
Later(a, b) == a[1] > b[1] \/ (a[1] = b[1] /\ a[2] > b[2])

\* C28 as stated: the task is the most recent user-authored text part of the
\* transcript that does not carry the feedback marker.
C28_MostRecentPart ==
  \A a \in Places :
     (/\ extraction.ok
      /\ HumanTextAt(a[1], a[2])
      /\ \A b \in Places : Later(b, a) => ~HumanTextAt(b[1], b[2]))
       => extraction.task = snapshot[a[1]].parts[a[2]].text

\* C28: the task is the first text part without the feedback marker of the
\* most recent user message that has such a part: a later human message
\* overrides an earlier one, and a feedback message never becomes the task.
C28_MostRecentMessage ==
  /\ \A a \in Places :
       (/\ extraction.ok
        /\ HumanTextAt(a[1], a[2])
        /\ \A b \in Places : (b[1] > a[1] \/ (b[1] = a[1] /\ b[2] < a[2]))
                                => ~HumanTextAt(b[1], b[2]))
         => extraction.task = snapshot[a[1]].parts[a[2]].text
  /\ extraction.ok => \A n \in 1..Len(extraction.task) :
                         extraction.task[n] # REFLECTION_MARKER

\* A human message was overridden by a later one, a feedback message came
\* after both, and the later human message is the task.
C28_Witness ==
  /\ snapshot = <<UserMessage(HumanTexts[1]), UserMessage(HumanTexts[2]),
                  UserMessage(FeedbackPrompt),
                  Message("assistant", <<TextPart(AgentText)>>, NoError, TRUE)>>
  /\ extraction.ok
  /\ extraction.task = HumanTexts[2]

\* The places of the transcript read that hold a non-empty assistant text,
\* and those that hold a tool call.
AssistantTextPlaces ==
  {a \in Places : /\ snapshot[a[1]].role = "assistant"
                  /\ snapshot[a[1]].parts[a[2]].type = "text"
                  /\ snapshot[a[1]].parts[a[2]].text # <<>>}
ToolPlaces == {a \in Places : snapshot[a[1]].parts[a[2]].type = "tool"}
Min(x, y) == IF x <= y THEN x ELSE y

\* C29: the result is the last non-empty assistant text part of the
\* transcript, and the tool trace consists of exactly the last 10 tool-call
\* parts of the whole transcript in transcript order (all of them when there
\* are fewer than 10).
C29_ResultAndTools ==
  extraction.ok =>
    /\ \E a \in AssistantTextPlaces :
         /\ \A b \in AssistantTextPlaces : ~Later(b, a)
         /\ extraction.result = snapshot[a[1]].parts[a[2]].text
    /\ Len(extraction.tools) = Min(Cardinality(ToolPlaces), 10)
    /\ \A j \in 1..Len(extraction.tools) :
         \E a \in ToolPlaces :
            /\ Cardinality({b \in ToolPlaces : Later(b, a)}) = Len(extraction.tools) - j
            /\ extraction.tools[j] = snapshot[a[1]].parts[a[2]].tool

\* Twelve tool calls in three messages, the last of them between two texts
\* of the final assistant message: the two oldest tool calls are dropped and
\* the later text is the result.
C29_Witness ==
  /\ extraction.ok
  /\ Cardinality(ToolPlaces) = 12
  /\ Cardinality(AssistantTextPlaces) = 2
  /\ extraction.tools = <<"t3", "t4", "t5", "t6", "t7", "t8", "t9", "t10", "t11", "edit">>
  /\ extraction.result = <<"all done">>

\* Some text part of the transcript carries the judge-prompt marker.
CarriesJudgePrompt(messages) ==
  \E i \in 1..Len(messages) : \E k \in 1..Len(messages[i].parts) :
     /\ messages[i].parts[k].type = "text"
     /\ \E n \in 1..Len(messages[i].parts[k].text) :
          messages[i].parts[k].text[n] = JUDGE_MARKER

HumanTyped(messages) ==
  Cardinality({i \in 1..Len(messages) :
     /\ messages[i].role = "user"
     /\ messages[i].parts[1].text[1] # REFLECTION_MARKER})

\* C31: feedback is not human input.  The feedback prompt a pass injects into
\* its session leaves the session's human-message count as it was, hence the
\* attempt key too; and the count a pass takes from the transcript is the
\* number of messages the user typed, feedback prompts left out.
C31_FeedbackNotHuman ==
  [][\A p \in passes :
       /\ (p.pc = "feedback" /\ p \notin passes' /\ msgs'[p.sid] # msgs[p.sid])
            => /\ Len(msgs'[p.sid]) = Len(msgs[p.sid]) + 1
               /\ countHumanMessages(msgs'[p.sid]) = countHumanMessages(msgs[p.sid])
               /\ getAttemptKey(p.sid, countHumanMessages(msgs'[p.sid]))
                    = getAttemptKey(p.sid, p.humanMsgCount)
                  \/ countHumanMessages(msgs[p.sid]) # p.humanMsgCount
       /\ (p.pc = "messages" /\ p \notin passes')
            => \A q \in passes' \ passes :
                 q.sid = p.sid => q.humanMsgCount = HumanTyped(msgs[p.sid])]_vars

\* A second round on the same task: the transcript holds a feedback prompt,
\* and a pass that read it works under the key of the first round.
C31_Witness ==
  \E p \in passes :
     /\ p.pc = "create"
     /\ HasFeedback(msgs[p.sid])
     /\ p.attemptCount = 1
     /\ p.humanMsgCount = 1
     /\ MapGet(fbLabels, getAttemptKey(p.sid, 1), <<>>) = <<1>>

\* Some assistant message of the transcript carries an error named
\* MessageAbortedError, or an error whose message (data.message where the
\* error has one, else message) has "abort" in it, in whatever case.
CarriesAbort(messages) ==
  \E i \in 1..Len(messages) :
     /\ messages[i].role = "assistant"
     /\ LET error == messages[i].error
            text == IF error.data # <<>> THEN error.data ELSE error.message
        IN \/ error.name = "MessageAbortedError"
           \/ \E n \in 1..Len(text) :
                text[n] \in {"The operation was aborted.", "Request ABORTED"}

\* C32: wasSessionAborted returns true when any assistant message of the
\* transcript carries an abort error, whether or not it is the last one, and
\* false for a session not in abortedSessions whose assistant messages carry
\* none.
C32_AnyAssistantAbort ==
  [][\A s \in Users :
       snapshot' # snapshot
         => /\ CarriesAbort(snapshot') => aborted'
            /\ (s \notin abortedSessions /\ ~CarriesAbort(snapshot')) => ~aborted']_vars

\* The call returned true for a transcript whose abort error, known by its
\* message only, sits on an assistant message that is not the last one.
C32_Witness ==
  /\ aborted
  /\ Len(snapshot) = 4
  /\ snapshot[2].role = "assistant" /\ snapshot[2].error = AbortedRequest
  /\ snapshot[4].role = "assistant" /\ snapshot[4].error = NoError
  /\ \A i \in {1, 3} : snapshot[i].role = "user" /\ snapshot[i].error = NoError

\* The speak() call of q has returned, or none was made.
Returned(q) == speakers[q].pc = "idle"

\* C33: a speak() call that has returned, after the engines (whatever they
\* ended in) or after its wait for a turn timed out, has left neither a ticket
\* of its own in the queue nor a lock of its own at the lock path.
C33_NothingLeftBehind ==
  \A q \in Procs :
     Returned(q)
       => /\ \A t \in tickets : t.processId # q
          /\ ~(lockFile.exists /\ lockFile.creator = q)
          /\ ~(lockFile.exists /\ lockFile.content.written /\ lockFile.content.processId = q)

\* One request is through its engines and has released its lock, its ticket
\* still to be removed, while the other one's wait for a turn has timed out,
\* its ticket gone stale.
C33_Witness ==
  \E q \in Procs, r \in Procs :
     /\ q # r
     /\ speakers[q].pc = "removeTicket"
     /\ speakers[q].ticket \in tickets
     /\ ~lockFile.exists
     /\ speakers[r].pc = "sleep"
     /\ ~(now - speakers[r].startTime < SPEECH_TURN_TIMEOUT)

\* C34: the in-flight guard is released on every path: a session is in
\* activeReflections exactly while a runReflection call on it is executing,
\* whether its calls returned early, applied a verdict, timed out or threw.
C34_GuardReleased ==
  \A s \in Sessions : s \in activeReflections <=> \E p \in passes : p.sid = s

\* After a pass in which an RPC threw, a session.idle has started a new pass
\* on the same session.
C34_Witness ==
  /\ failures >= 1
  /\ judged # <<>>
  /\ \E p \in passes : p.pc = "messages" /\ p.sid \in activeReflections

\* The generation the session is in has been judged complete, or stopped at
\* the cap, after no more than MAX_ATTEMPTS feedback prompts.
SettledByVerdict(s) ==
  LET k == getAttemptKey(s, countHumanMessages(msgs[s])) IN
  /\ MapGet(lastReflectedMsgCount, s, 0) = countHumanMessages(msgs[s])
  /\ k \in completedGens \/ CapWarned(k)
  /\ Len(MapGet(fbLabels, k, <<>>)) <= MAX_ATTEMPTS

C36_VerdictOnObservedGeneration ==
  [][\A p \in passes :
       /\ (Steps(p) /\ p.pc = "poll" /\ lastReflectedMsgCount' # lastReflectedMsgCount)
            => /\ lastReflectedMsgCount'[p.sid] = p.humanMsgCount
               /\ countHumanMessages(msgs[p.sid]) > p.humanMsgCount
                    => lastReflectedMsgCount'[p.sid] < countHumanMessages(msgs'[p.sid])
       /\ (Steps(p) /\ p.pc = "messages" /\ Len(msgs[p.sid]) >= 2
             /\ MapGet(lastReflectedMsgCount, p.sid, 0) > 0
             /\ MapGet(lastReflectedMsgCount, p.sid, 0) < countHumanMessages(msgs[p.sid])
             /\ MapGet(attempts, getAttemptKey(p.sid, countHumanMessages(msgs[p.sid])), 0)
                  < MAX_ATTEMPTS)
            => \E q \in passes' :
                 /\ q.sid = p.sid /\ q.pc = "create"
                 /\ q.humanMsgCount = countHumanMessages(msgs[p.sid])]_vars

\* A pass that counted one human message has applied a complete verdict while
\* the transcript holds two: generation 1 is settled, generation 2 is not.
C36_Witness ==
  \E p \in passes :
     /\ p.pc = "delete"
     /\ p.humanMsgCount = 1
     /\ countHumanMessages(msgs[p.sid]) = 2
     /\ getAttemptKey(p.sid, 1) \in completedGens
     /\ getAttemptKey(p.sid, 2) \notin completedGens
     /\ MapGet(lastReflectedMsgCount, p.sid, 0) = 1

\* C37: a user session whose transcript has "TASK VERIFICATION" in a text
\* part of any message, user or assistant, is never reflected on: every pass a
\* session.idle starts on it ends on reading the transcript, with no judge
\* session, no feedback prompt and the ledgers as they were.
C37_MarkedSessionSkipped ==
  [][\A p \in passes :
       (Steps(p) /\ p.pc = "messages" /\ p.sid \in Users /\ CarriesJudgePrompt(msgs[p.sid]))
         => /\ passes' = passes \ {p}
            /\ p.sid \notin activeReflections'
            /\ UNCHANGED <<attempts, lastReflectedMsgCount, judgeSessionIds, host, history>>]_vars

\* A pass is about to read the transcript of the user's session, in which
\* only the agent's reply carries the marker, and which could be judged.
C37_Witness ==
  \E p \in passes :
     /\ p.pc = "messages"
     /\ p.sid \in Users
     /\ CarriesJudgePrompt(msgs[p.sid])
     /\ \A i \in 1..Len(msgs[p.sid]) :
          msgs[p.sid][i].role = "user" => ~CarriesJudgePrompt(<<msgs[p.sid][i]>>)
     /\ countHumanMessages(msgs[p.sid]) = 1
     /\ extractTaskAndResult(msgs[p.sid]).ok

\* The judge sessions of the passes in flight that have recorded one.
JudgesInFlight ==
  {p.judge : p \in {q \in passes : q.pc \in {"judgePrompt", "poll", "feedback", "delete"}}}

\* C38: judgeSessionIds holds the ids of the judge sessions created by passes
\* still in flight and no other: it is never larger than activeReflections and
\* is empty whenever activeReflections is.
C38_JudgeIdsInFlight ==
  /\ judgeSessionIds = JudgesInFlight
  /\ Cardinality(judgeSessionIds) <= Cardinality(activeReflections)
  /\ activeReflections = {} => judgeSessionIds = {}

\* The judge prompt threw: the pass is on its way out through the cleanup,
\* its judge session still recorded.
C38_Witness ==
  \E p \in passes :
     /\ p.pc = "delete"
     /\ p.judge \in judgeSessionIds
     /\ p.sid \in activeReflections
     /\ failures >= 1
     /\ nextJudge > 2

\* The ledger entries, the settlement mark and the two flags of a session.
OwnState(s) ==
  [attempts |-> [k \in {x \in DOMAIN attempts : x[1] = s} |-> attempts[k]],
   settled |-> [x \in DOMAIN lastReflectedMsgCount \cap {s} |-> lastReflectedMsgCount[x]],
   inFlight |-> s \in activeReflections,
   aborted |-> s \in abortedSessions]

\* C39: guard and ledger state is per session.  While a pass is in flight on
\* one session, a session.idle for another session of the user's that is
\* neither in flight nor known as aborted or judge starts a pass on it; and no
\* step of a pass changes the attempt counts, the settlement mark, the
\* in-flight flag or the aborted flag of a session other than its own.
C39_PerSession ==
  [][\A p \in passes : \A b \in (Users \cup MoreUsers) \ {p.sid} :
       /\ (b \in live /\ b \notin activeReflections /\ b \notin abortedSessions)
            => ENABLED (SessionIdle(b) /\ b \in activeReflections')
       /\ Steps(p) => OwnState(b)' = OwnState(b)]_vars

\* Passes are in flight on both sessions, one of them polling its judge, and
\* the ledger holds a record of either session.
C39_Witness ==
  \E p \in passes, q \in passes :
     /\ p.sid # q.sid
     /\ p.pc = "poll"
     /\ q.pc = "create"
     /\ MapGet(attempts, getAttemptKey(p.sid, 1), 0) = 1
     /\ MapGet(lastReflectedMsgCount, q.sid, 0) = 0

\* C40: the "Max attempts reached" warning is published at most once for a
\* session and generation, and from then on the generation is marked
\* reflected, so that a further session.idle for it returns at the
\* already-reflected check, before the cap check.
C40_CapWarnedOnce ==
  \A k \in {x[1] : x \in DOMAIN toasts} :
     CapWarned(k)
       => /\ toasts[<<k, "warning", "Max attempts reached">>] = 1
          /\ MapGet(lastReflectedMsgCount, k[1], 0) >= k[2]

\* The warning is out for the generation the session is still in, and a
\* further session.idle has started a pass on it.
C40_Witness ==
  \E p \in passes :
     /\ p.pc = "messages"
     /\ CapWarned(getAttemptKey(p.sid, countHumanMessages(msgs[p.sid])))
     /\ Len(msgs[p.sid]) >= 2

====
